---- MODULE Spec2Model ----
(***************************************************************************)
(* Session / device / lockout core of the authentication backend.          *)
(*                                                                         *)
(* The fast store (Redis) is modelled key by key: every redisClient        *)
(* command of config/redis.js is one atomic step of the request that       *)
(* issues it, and every `await` between two commands is a point where      *)
(* another request may run.  Keys with a TTL carry their absolute expiry   *)
(* time and are removed by the clock step that reaches it.  The durable    *)
(* user entity (MongoDB) is a record per user; a request works on a        *)
(* snapshot loaded by findByEmail / findById and writes it back with       *)
(* save().  The user agent string and the push token of a device are not   *)
(* modelled; no operation branches on them.                                *)
(***************************************************************************)
EXTENDS Integers, Sequences, FiniteSets, TLC

(* ------------------------------ bounds -------------------------------- *)
\* login attempts started in one behaviour
MaxAttempts == 7
\* logins with the right password started in one behaviour
MaxLogins == 3
\* logins started in one behaviour while the stores fail and recover
MaxFailLogins == 2
\* the clock stops advancing here (seconds)
MaxTime == 900
\* calls made on the session service directly in one behaviour
MaxStoreCalls == 6
\* distinct device fingerprints a user logs in from
MaxFingerprints == 12
\* calls on the device list other than a login from a new fingerprint
MaxOtherCalls == 2
\* requests of any kind started in one behaviour of the session life cycle
MaxRequests == 5
\* requests started in one behaviour while the fast store goes away and comes back
MaxOutageRequests == 6
\* the requests at the start of such a behaviour that may be logins with the
\* right password
MaxOutageLogins == 2
\* requests started in one behaviour of a session that is used and left idle
MaxIdleRequests == 3
\* logins started in one such behaviour
MaxIdleLogins == 2
\* the clock of such a behaviour stops advancing here (seconds)
MaxIdleTime == 340
\* requests started in one behaviour with overlapping password resets
MaxResetRequests == 4
\* calls of createSession and refreshSession in one behaviour of the refresh throttle
MaxRefreshCalls == 4
\* sessions created in one such behaviour
MaxRefreshSessions == 1
\* service calls started in one behaviour of stored and revoked tokens
MaxTokenCalls == 5
\* the time such a behaviour covers, in seconds: two token lives
MaxTokenTime == 1209600
\* requests started in one behaviour of logins and concurrent logouts
MaxRaceRequests == 4
\* failing logins started in one behaviour of the attempt counter
MaxCounterAttempts == 5
\* granularity of the clock (seconds per clock step)
TickSeconds == 900

(* ------------------------- program constants -------------------------- *)
LOCK_THRESHOLD == 5
LOCKOUT_TIME == 900
SESSION_TIMEOUT == 300
REFRESH_TOKEN_EXPIRE == 604800
MAX_DEVICES == 10
SESSION_REFRESH_THROTTLE == 30
RESET_TOKEN_EXPIRE == 3600

(* ------------------------------ inputs -------------------------------- *)
Procs == {"r1", "r2"}
Users == {"alice"}
Emails == Users \cup {"nobody"}
Passwords == {"good", "bad"}
IPs == {"ip1"}
Identifiers == Emails \X IPs
Sids == 1 .. MaxLogins
NoSid == 0
NoUser == "none"
ResetTokens == {"rt1"}

\* parsed user agents (auth.js 100-120, without req.ip)
UserAgents ==
  { [browser |-> "Chrome", version |-> "120", os |-> "Windows", dtype |-> "desktop", vendor |-> "Unknown"],
    [browser |-> "Safari", version |-> "17", os |-> "iOS", dtype |-> "mobile", vendor |-> "Apple"] }

\* device ids a client may name: the known fingerprints and one that no login produced
DeviceIds == {<<a.browser, a.os, a.dtype, a.vendor>> : a \in UserAgents}
               \cup {<<"Opera", "Linux", "desktop", "Unknown">>}
NewPasswords == {"new"}

\* the i-th of the fingerprints a user logs in from, pairwise distinct in
\* browser name or os name
Browsers == <<"Chrome", "Firefox", "Safari", "Edge", "Opera">>
Systems == <<"Windows", "macOS", "Linux">>
agentOf(i) ==
  [browser |-> Browsers[(((i - 1) \div 3) % 5) + 1], version |-> "1",
   os |-> Systems[((i - 1) % 3) + 1], dtype |-> "desktop", vendor |-> "Unknown"]

NoAgent == [browser |-> "none", version |-> "none", os |-> "none", dtype |-> "none", vendor |-> "none"]

VARIABLES
  \* fast store
  ready,                \* client.status === 'ready'
  session,              \* session:<sid>
  active_session,       \* active_session:<userId>
  refresh_token,        \* refresh_token:<token>, the token of session sid
  user_refresh_tokens,  \* user_refresh_tokens:<userId>
  failed_attempts,      \* failed_attempts:<identifier>
  account_lock,         \* account_lock:<identifier>
  reset_token,          \* reset_token:<token>
  session_refresh,      \* session_refresh:<sid>, the throttle marker of refreshSession
  \* durable store
  mongoUp,
  users,
  \* clock and id source
  now,
  nextSid,
  \* requests
  pc, req, loc, resp,
  \* history
  nAttempts,            \* requests started
  streak,               \* consecutive credential failures per identifier
  lastFailAt,           \* time of the last credential failure per identifier
  prevOutcome,          \* outcome of the last finished login per identifier
  clearedCount,         \* the count the last clearFailedAttempts removed, per identifier
  lastLogin,            \* session and device entry of the user's last finished successful login
  sessionDevice,        \* the device fingerprint each session was created from
  evictedFrom,          \* the device of the live session a login's eviction deleted
  lastCall,             \* the last call made directly on the user entity or on refreshSession
  lastActive            \* per session: when it was created or last carried by an
                        \* authenticated request or a token refresh

auxStore == <<reset_token, session_refresh>>
auxHist == <<sessionDevice, evictedFrom, lastCall, lastActive>>
histButActive == <<nAttempts, streak, lastFailAt, prevOutcome, clearedCount, lastLogin,
                   sessionDevice, evictedFrom, lastCall>>
storeVars == <<session, active_session, refresh_token, user_refresh_tokens,
               failed_attempts, account_lock, reset_token, session_refresh>>
envVars == <<ready, mongoUp, now>>
histVars == <<nAttempts, streak, lastFailAt, prevOutcome, clearedCount, lastLogin,
              sessionDevice, evictedFrom, lastCall, lastActive>>
vars == <<ready, session, active_session, refresh_token, user_refresh_tokens,
          failed_attempts, account_lock, mongoUp, users, now, nextSid,
          pc, req, loc, resp, nAttempts, streak, lastFailAt, prevOutcome,
          clearedCount, lastLogin, reset_token, session_refresh,
          sessionDevice, evictedFrom, lastCall, lastActive>>

(* --------------------------- empty values ----------------------------- *)
NoSession == [userId |-> NoUser, sessionId |-> NoSid, createdAt |-> 0, exp |-> 0]
NoToken == [userId |-> NoUser, sessionId |-> NoSid, exp |-> 0]
NoCounter == [count |-> 0, exp |-> 0]
NoSet == [members |-> {}, exp |-> 0]
NoResetToken == [userId |-> NoUser, exp |-> 0]
NoMarker == [at |-> 0, exp |-> 0]
NoCall == [op |-> "none", deviceId |-> << >>, ret |-> FALSE, n |-> 0, others |-> 0,
           again |-> FALSE, before |-> << >>]
NoReq == [op |-> "none", email |-> "none", password |-> "none", ip |-> "none", agent |-> NoAgent]
NoLoc == [user |-> NoUser, devices |-> << >>, attempts |-> 0, ptrSid |-> NoSid,
          toks |-> {}, sid |-> NoSid, deviceId |-> << >>, isNewDevice |-> FALSE,
          previousDeviceInfo |-> << >>, tokenData |-> << >>]
NoResp == [kind |-> "none", status |-> 0, remaining |-> 0, sid |-> NoSid,
           deviceLogout |-> << >>, totalDevices |-> 0, timeLeft |-> 0]

(* ------------------------ models/User.js ------------------------------ *)
\* generateDeviceId: md5 over browser name, os name, device type and vendor
generateDeviceId(agent) == <<agent.browser, agent.os, agent.dtype, agent.vendor>>

\* position of the entry with this deviceId, 0 when there is none (findIndex)
findDeviceIndex(devices, deviceId) ==
  IF \E i \in 1 .. Len(devices) : devices[i].deviceId = deviceId
  THEN CHOOSE i \in 1 .. Len(devices) :
         /\ devices[i].deviceId = deviceId
         /\ \A j \in 1 .. (i - 1) : devices[j].deviceId # deviceId
  ELSE 0

\* Array.prototype.sort with (a, b) => b.lastSeen - a.lastSeen, which is
\* stable: the place of entry i is one more than the number of entries that
\* were seen later, or at the same time and stand before it
rankByLastSeen(devices, i) ==
  1 + Cardinality({j \in 1 .. Len(devices) :
                     \/ devices[j].lastSeen > devices[i].lastSeen
                     \/ devices[j].lastSeen = devices[i].lastSeen /\ j < i})

sortByLastSeenDesc(devices) ==
  [r \in 1 .. Len(devices) |->
     devices[CHOOSE i \in 1 .. Len(devices) : rankByLastSeen(devices, i) = r]]

\* updateDeviceInfo that truncates the list without sorting it first
updateDeviceInfo_SliceUnsorted(devices, agent, ip, t) ==
  LET deviceId == generateDeviceId(agent)
      i == findDeviceIndex(devices, deviceId)
  IN IF i # 0
     THEN [devices EXCEPT ![i] = [@ EXCEPT !.lastSeen = t,
                                           !.loginCount = @ + 1,
                                           !.ip = ip,
                                           !.isActive = TRUE]]
     ELSE LET pushed == Append(devices,
                          [deviceId |-> deviceId, agent |-> agent, ip |-> ip,
                           firstSeen |-> t, lastSeen |-> t, loginCount |-> 1,
                           isActive |-> TRUE])
          IN IF Len(pushed) > MAX_DEVICES
             THEN SubSeq(pushed, 1, MAX_DEVICES)
             ELSE pushed

\* updateDeviceInfo that leaves the loginCount of a known device as it was
updateDeviceInfo_CountKept(devices, agent, ip, t) ==
  LET deviceId == generateDeviceId(agent)
      i == findDeviceIndex(devices, deviceId)
  IN IF i # 0
     THEN [devices EXCEPT ![i] = [@ EXCEPT !.lastSeen = t,
                                           !.ip = ip,
                                           !.isActive = TRUE]]
     ELSE LET pushed == Append(devices,
                          [deviceId |-> deviceId, agent |-> agent, ip |-> ip,
                           firstSeen |-> t, lastSeen |-> t, loginCount |-> 1,
                           isActive |-> TRUE])
          IN IF Len(pushed) > MAX_DEVICES
             THEN SubSeq(sortByLastSeenDesc(pushed), 1, MAX_DEVICES)
             ELSE pushed

\* updateDeviceInfo: the device list after recording a login of `agent` from `ip`
updateDeviceInfo(devices, agent, ip, t) ==
  LET deviceId == generateDeviceId(agent)
      i == findDeviceIndex(devices, deviceId)
  IN IF i # 0
     THEN [devices EXCEPT ![i] = [@ EXCEPT !.lastSeen = t,
                                           !.loginCount = @ + 1,
                                           !.ip = ip,
                                           !.isActive = TRUE]]
     ELSE LET pushed == Append(devices,
                          [deviceId |-> deviceId, agent |-> agent, ip |-> ip,
                           firstSeen |-> t, lastSeen |-> t, loginCount |-> 1,
                           isActive |-> TRUE])
          IN IF Len(pushed) > MAX_DEVICES
             THEN SubSeq(sortByLastSeenDesc(pushed), 1, MAX_DEVICES)
             ELSE pushed

(* ------------------------ config/redis.js ----------------------------- *)
\* sessionService.getSession
getSession(sid) ==
  IF ready /\ session[sid].userId # NoUser THEN <<session[sid]>> ELSE << >>

\* sessionService.getRefreshToken
getRefreshToken(tok) ==
  IF ready /\ refresh_token[tok].userId # NoUser THEN <<refresh_token[tok]>> ELSE << >>

\* failedAttemptsService.getFailedAttempts
getFailedAttempts(id) == IF ready THEN failed_attempts[id].count ELSE 0

\* isAccountLocked that reads the key without regard to the client's state
isAccountLocked_ReadsThrough(id) == account_lock[id] # 0

\* failedAttemptsService.isAccountLocked
isAccountLocked(id) == IF ready THEN account_lock[id] # 0 ELSE FALSE

\* authenticateTokenAccepts without the comparison of the user ids
authenticateTokenAccepts_UserUnchecked(userId, sid) ==
  getSession(sid) # << >>

\* middleware authenticateToken (16-31): does an access token bound to
\* {userId, sessionId} pass the session check
authenticateTokenAccepts(userId, sid) ==
  /\ getSession(sid) # << >>
  /\ getSession(sid)[1].userId = userId

\* middleware authenticateToken (16-31): the answer to an access token bound
\* to {userId, sessionId}; "next" passes the request on to the route
authenticateToken(userId, sid) ==
  IF getSession(sid) = << >> THEN "invalid_session"
  ELSE IF getSession(sid)[1].userId # userId THEN "session_mismatch"
  ELSE "next"

\* sessionService.refreshSession: the value it returns (true from the
\* operation, false as the fallback of safeRedisOp)
refreshSessionReturn(sid) == ready

(* --------------------------- initial state ---------------------------- *)
Init ==
  /\ ready = TRUE
  /\ session = [s \in Sids |-> NoSession]
  /\ active_session = [u \in Users |-> NoSid]
  /\ refresh_token = [s \in Sids |-> NoToken]
  /\ user_refresh_tokens = [u \in Users |-> NoSet]
  /\ failed_attempts = [id \in Identifiers |-> NoCounter]
  /\ account_lock = [id \in Identifiers |-> 0]
  /\ reset_token = [t \in ResetTokens |-> NoResetToken]
  /\ session_refresh = [s \in Sids |-> NoMarker]
  /\ mongoUp = TRUE
  /\ users = [u \in Users |-> [password |-> "good", isActive |-> TRUE,
                               lastLogin |-> 0, devices |-> << >>,
                               lastDeviceInfo |-> NoAgent]]
  /\ now = 0
  /\ nextSid = 1
  /\ pc = [p \in Procs |-> "idle"]
  /\ req = [p \in Procs |-> NoReq]
  /\ loc = [p \in Procs |-> NoLoc]
  /\ resp = [p \in Procs |-> NoResp]
  /\ nAttempts = 0
  /\ streak = [id \in Identifiers |-> 0]
  /\ lastFailAt = [id \in Identifiers |-> 0]
  /\ prevOutcome = [id \in Identifiers |-> "none"]
  /\ clearedCount = [id \in Identifiers |-> 0]
  /\ lastLogin = [u \in Users |-> [sid |-> NoSid, entry |-> << >>]]
  /\ sessionDevice = [s \in Sids |-> << >>]
  /\ evictedFrom = [p \in Procs |-> << >>]
  /\ lastCall = NoCall
  /\ lastActive = [s \in Sids |-> 0]

(* ----------------------- request bookkeeping -------------------------- *)
Identifier(p) == <<req[p].email, req[p].ip>>

\* the request of p ends with response r (res.json / the error middleware)
Respond(p, r) ==
  /\ pc' = [pc EXCEPT ![p] = "done"]
  /\ resp' = [resp EXCEPT ![p] = r]

Goto(p, label) ==
  /\ pc' = [pc EXCEPT ![p] = label]
  /\ UNCHANGED resp

LockedResponse == [NoResp EXCEPT !.kind = "locked", !.status = 429]
InvalidResponse(n) == [NoResp EXCEPT !.kind = "invalid", !.status = 401, !.remaining = n]
InactiveResponse == [NoResp EXCEPT !.kind = "inactive", !.status = 401]
ErrorResponse == [NoResp EXCEPT !.kind = "error", !.status = 500]

(* ----------------------- POST /login  (routes/auth.js) ---------------- *)
\* a client sends a login request; with overlap = FALSE only while no other
\* request is being handled; limit bounds the attempts of one behaviour
StartLogin(p, email, password, ip, agent, overlap, limit) ==
  /\ pc[p] = "idle"
  /\ overlap \/ \A q \in Procs : pc[q] = "idle"
  /\ nAttempts < limit
  /\ (email \in Users /\ password = users[email].password) => nextSid <= MaxLogins
  /\ nAttempts' = nAttempts + 1
  /\ req' = [req EXCEPT ![p] = [op |-> "login", email |-> email, password |-> password,
                                ip |-> ip, agent |-> agent]]
  /\ pc' = [pc EXCEPT ![p] = "check_lock"]
  /\ UNCHANGED <<storeVars, envVars, users, nextSid, loc, resp, streak, lastFailAt, prevOutcome,
                 clearedCount, lastLogin, auxHist>>

\* CheckLock with a locked attempt counted as one more failure
CheckLock_CountsLocked(p) ==
  /\ pc[p] = "check_lock"
  /\ IF isAccountLocked(Identifier(p))
     THEN /\ Respond(p, LockedResponse)
          /\ failed_attempts' = [failed_attempts EXCEPT ![Identifier(p)].count = @ + 1]
     ELSE Goto(p, "find_user") /\ UNCHANGED failed_attempts
  /\ UNCHANGED <<session, active_session, refresh_token, user_refresh_tokens, account_lock,
                 envVars, users, nextSid, req, loc, histVars, auxStore>>

\* auth.js 69-72: the lock check
CheckLock(p) ==
  /\ pc[p] = "check_lock"
  /\ IF isAccountLocked(Identifier(p))
     THEN Respond(p, LockedResponse)
     ELSE Goto(p, "find_user")
  /\ UNCHANGED <<storeVars, envVars, users, nextSid, req, loc, histVars>>

\* FindUser without the isActive check
FindUser_ActiveUnchecked(p) ==
  /\ pc[p] = "find_user"
  /\ IF ~mongoUp
     THEN Respond(p, ErrorResponse) /\ UNCHANGED loc
     ELSE IF req[p].email \notin Users
     THEN Goto(p, "nf_incr") /\ UNCHANGED loc
     ELSE LET u == users[req[p].email] IN
          /\ loc' = [loc EXCEPT ![p].user = req[p].email, ![p].devices = u.devices]
          /\ IF req[p].password # u.password THEN Goto(p, "pw_incr")
             ELSE Goto(p, "clear")
  /\ UNCHANGED <<storeVars, envVars, users, nextSid, req, histVars>>

\* auth.js 74-95: findByEmail, comparePassword and the isActive check
FindUser(p) ==
  /\ pc[p] = "find_user"
  /\ IF ~mongoUp
     THEN Respond(p, ErrorResponse) /\ UNCHANGED loc
     ELSE IF req[p].email \notin Users
     THEN Goto(p, "nf_incr") /\ UNCHANGED loc
     ELSE LET u == users[req[p].email] IN
          /\ loc' = [loc EXCEPT ![p].user = req[p].email, ![p].devices = u.devices]
          /\ IF req[p].password # u.password THEN Goto(p, "pw_incr")
             ELSE IF ~u.isActive THEN Respond(p, InactiveResponse)
             ELSE Goto(p, "clear")
  /\ UNCHANGED <<storeVars, envVars, users, nextSid, req, histVars>>

\* AfterIncrement locking only above the threshold
AfterIncrement_OffByOne(p, branch, attempts) ==
  IF branch = "nf"
  THEN Respond(p, InvalidResponse(0))
  ELSE IF attempts > LOCK_THRESHOLD
       THEN Goto(p, "lock")
       ELSE Respond(p, InvalidResponse(LOCK_THRESHOLD - attempts))

\* what the route does with the value incrementFailedAttempts returned:
\* auth.js 77-78 (no such user) and 83-90 (wrong password)
AfterIncrement(p, branch, attempts) ==
  IF branch = "nf"
  THEN Respond(p, InvalidResponse(0))
  ELSE IF attempts >= LOCK_THRESHOLD
       THEN Goto(p, "lock")
       ELSE Respond(p, InvalidResponse(LOCK_THRESHOLD - attempts))

\* redis.js 212: INCR failed_attempts:<identifier>
IncrAttempts(p) ==
  /\ pc[p] \in {"nf_incr", "pw_incr"}
  /\ LET id == Identifier(p)
         branch == IF pc[p] = "nf_incr" THEN "nf" ELSE "pw"
     IN /\ streak' = [streak EXCEPT ![id] =
                        IF @ > 0 /\ now - lastFailAt[id] < LOCKOUT_TIME THEN @ + 1 ELSE 1]
        /\ lastFailAt' = [lastFailAt EXCEPT ![id] = now]
        /\ IF ready
           THEN /\ failed_attempts' = [failed_attempts EXCEPT ![id].count = @ + 1]
                /\ loc' = [loc EXCEPT ![p].attempts = failed_attempts[id].count + 1]
                /\ Goto(p, IF branch = "nf" THEN "nf_expire" ELSE "pw_expire")
           ELSE /\ loc' = [loc EXCEPT ![p].attempts = 1]
                /\ AfterIncrement(p, branch, 1)
                /\ UNCHANGED failed_attempts
  /\ UNCHANGED <<session, active_session, refresh_token, user_refresh_tokens, account_lock,
                 envVars, users, nextSid, req, nAttempts, prevOutcome, clearedCount, lastLogin, auxStore, auxHist>>

\* ExpireAttempts that arms the TTL only on a counter that has none
ExpireAttempts_OnlyWhenNew(p) ==
  /\ pc[p] \in {"nf_expire", "pw_expire"}
  /\ LET id == Identifier(p)
         branch == IF pc[p] = "nf_expire" THEN "nf" ELSE "pw"
     IN /\ failed_attempts' =
             [failed_attempts EXCEPT ![id].exp = IF failed_attempts[id].count > 0 /\ @ = 0
                                                 THEN now + LOCKOUT_TIME ELSE @]
        /\ AfterIncrement(p, branch, loc[p].attempts)
        /\ UNCHANGED loc
  /\ UNCHANGED <<session, active_session, refresh_token, user_refresh_tokens, account_lock,
                 envVars, users, nextSid, req, histVars, auxStore>>

\* redis.js 213-214: EXPIRE failed_attempts:<identifier> LOCKOUT_TIME
ExpireAttempts(p) ==
  /\ pc[p] \in {"nf_expire", "pw_expire"}
  /\ LET id == Identifier(p)
         branch == IF pc[p] = "nf_expire" THEN "nf" ELSE "pw"
     IN IF ready
        THEN /\ failed_attempts' =
                  [failed_attempts EXCEPT ![id].exp = IF failed_attempts[id].count > 0
                                                      THEN now + LOCKOUT_TIME ELSE @]
             /\ AfterIncrement(p, branch, loc[p].attempts)
             /\ UNCHANGED loc
        ELSE /\ loc' = [loc EXCEPT ![p].attempts = 1]
             /\ AfterIncrement(p, branch, 1)
             /\ UNCHANGED failed_attempts
  /\ UNCHANGED <<session, active_session, refresh_token, user_refresh_tokens, account_lock,
                 envVars, users, nextSid, req, histVars, auxStore>>

\* LockAccount that also deletes the session the pointer of the user names
LockAccount_DropsSession(p) ==
  /\ pc[p] = "lock"
  /\ account_lock' = IF ready
                     THEN [account_lock EXCEPT ![Identifier(p)] = now + LOCKOUT_TIME]
                     ELSE account_lock
  /\ session' = IF ready /\ active_session[loc[p].user] # NoSid
                 THEN [session EXCEPT ![active_session[loc[p].user]] = NoSession]
                 ELSE session
  /\ Respond(p, LockedResponse)
  /\ UNCHANGED <<active_session, refresh_token, user_refresh_tokens, failed_attempts,
                 envVars, users, nextSid, req, loc, histVars, auxStore>>

\* LockAccount with a lock that lasts half the lockout window
LockAccount_HalfWindow(p) ==
  /\ pc[p] = "lock"
  /\ account_lock' = IF ready
                     THEN [account_lock EXCEPT ![Identifier(p)] = now + (LOCKOUT_TIME \div 2)]
                     ELSE account_lock
  /\ Respond(p, LockedResponse)
  /\ UNCHANGED <<session, active_session, refresh_token, user_refresh_tokens, failed_attempts,
                 envVars, users, nextSid, req, loc, histVars, auxStore>>

\* redis.js 231-235 and auth.js 86-87: lockAccount, then the locked response
LockAccount(p) ==
  /\ pc[p] = "lock"
  /\ account_lock' = IF ready
                     THEN [account_lock EXCEPT ![Identifier(p)] = now + LOCKOUT_TIME]
                     ELSE account_lock
  /\ Respond(p, LockedResponse)
  /\ UNCHANGED <<session, active_session, refresh_token, user_refresh_tokens, failed_attempts,
                 envVars, users, nextSid, req, loc, histVars, auxStore>>

\* previousDevice read after the other devices were marked inactive
previousDevice_AfterDeactivation(devices, deviceId) ==
  LET deactivated == [i \in 1 .. Len(devices) |->
                        IF devices[i].deviceId # deviceId
                        THEN [devices[i] EXCEPT !.isActive = FALSE] ELSE devices[i]]
      activeDevices == sortByLastSeenDesc(
        SelectSeq(deactivated, LAMBDA d : d.isActive /\ d.deviceId # deviceId))
  IN IF Len(activeDevices) > 0 THEN <<activeDevices[1]>> ELSE << >>

\* auth.js 129-135: the most recently seen other active device
previousDevice(devices, deviceId) ==
  LET activeDevices == sortByLastSeenDesc(
        SelectSeq(devices, LAMBDA d : d.isActive /\ d.deviceId # deviceId))
  IN IF Len(activeDevices) > 0 THEN <<activeDevices[1]>> ELSE << >>

\* ClearAttempts that leaves the counter in the store
ClearAttempts_NoDelete(p) ==
  /\ pc[p] = "clear"
  /\ LET deviceId == generateDeviceId(req[p].agent) IN
       loc' = [loc EXCEPT ![p].deviceId = deviceId,
                          ![p].isNewDevice = (findDeviceIndex(loc[p].devices, deviceId) = 0),
                          ![p].previousDeviceInfo = previousDevice(loc[p].devices, deviceId)]
  /\ streak' = [streak EXCEPT ![Identifier(p)] = 0]
  /\ clearedCount' = [clearedCount EXCEPT ![Identifier(p)] = failed_attempts[Identifier(p)].count]
  /\ Goto(p, "ev_get")
  /\ UNCHANGED <<storeVars, envVars, users, nextSid, req, nAttempts, lastFailAt, prevOutcome,
                 lastLogin, auxHist>>

\* redis.js 225-229 and auth.js 97-135: clearFailedAttempts, then the device
\* id of this login and the snapshot of the previous device
ClearAttempts(p) ==
  /\ pc[p] = "clear"
  /\ failed_attempts' = IF ready
                        THEN [failed_attempts EXCEPT ![Identifier(p)] = NoCounter]
                        ELSE failed_attempts
  /\ LET deviceId == generateDeviceId(req[p].agent) IN
       loc' = [loc EXCEPT ![p].deviceId = deviceId,
                          ![p].isNewDevice = (findDeviceIndex(loc[p].devices, deviceId) = 0),
                          ![p].previousDeviceInfo = previousDevice(loc[p].devices, deviceId)]
  /\ streak' = [streak EXCEPT ![Identifier(p)] = 0]
  /\ clearedCount' = [clearedCount EXCEPT ![Identifier(p)] = failed_attempts[Identifier(p)].count]
  /\ Goto(p, "ev_get")
  /\ UNCHANGED <<session, active_session, refresh_token, user_refresh_tokens, account_lock,
                 envVars, users, nextSid, req, nAttempts, lastFailAt, prevOutcome, lastLogin, auxStore, auxHist>>

\* EvictGetPointer that goes on to create the session without evicting
EvictGetPointer_NoEviction(p) ==
  /\ pc[p] = "ev_get"
  /\ Goto(p, "sess_setex")
  /\ evictedFrom' = [evictedFrom EXCEPT ![p] = << >>]
  /\ UNCHANGED <<storeVars, envVars, users, nextSid, req, loc, nAttempts, streak, lastFailAt,
                 prevOutcome, clearedCount, lastLogin, sessionDevice, lastCall, lastActive>>

\* EvictGetPointer that evicts nothing when the login comes from the device of
\* the current session
EvictGetPointer_SameDeviceKept(p) ==
  /\ pc[p] = "ev_get"
  /\ IF ready
     THEN /\ loc' = [loc EXCEPT ![p].ptrSid = active_session[loc[p].user]]
          /\ Goto(p, IF active_session[loc[p].user] = NoSid THEN "ev_del_pointer"
                     ELSE IF sessionDevice[active_session[loc[p].user]] = loc[p].deviceId
                     THEN "sess_setex"
                     ELSE "ev_del_session")
     ELSE Goto(p, "tok_members") /\ UNCHANGED loc
  /\ evictedFrom' = [evictedFrom EXCEPT ![p] = << >>]
  /\ UNCHANGED <<storeVars, envVars, users, nextSid, req, nAttempts, streak, lastFailAt,
                 prevOutcome, clearedCount, lastLogin, sessionDevice, lastCall, lastActive>>

\* redis.js 151: deleteAllUserSessions reads active_session:<userId>
EvictGetPointer(p) ==
  /\ pc[p] = "ev_get"
  /\ IF ready
     THEN /\ loc' = [loc EXCEPT ![p].ptrSid = active_session[loc[p].user]]
          /\ Goto(p, IF active_session[loc[p].user] # NoSid THEN "ev_del_session"
                     ELSE "ev_del_pointer")
     ELSE Goto(p, "tok_members") /\ UNCHANGED loc
  /\ evictedFrom' = [evictedFrom EXCEPT ![p] = << >>]
  /\ UNCHANGED <<storeVars, envVars, users, nextSid, req, nAttempts, streak, lastFailAt,
                 prevOutcome, clearedCount, lastLogin, sessionDevice, lastCall, lastActive>>

\* EvictDelSession that leaves the session record in the store
EvictDelSession_KeepsRecord(p) ==
  /\ pc[p] = "ev_del_session"
  /\ Goto(p, IF ready THEN "ev_del_pointer" ELSE "tok_members")
  /\ UNCHANGED <<storeVars, envVars, users, nextSid, req, loc, histVars>>

\* redis.js 152-154: DEL session:<sessionId>
EvictDelSession(p) ==
  /\ pc[p] = "ev_del_session"
  /\ IF ready
     THEN /\ session' = [session EXCEPT ![loc[p].ptrSid] = NoSession]
          /\ evictedFrom' = [evictedFrom EXCEPT ![p] =
                               IF session[loc[p].ptrSid].userId # NoUser
                               THEN <<sessionDevice[loc[p].ptrSid]>> ELSE << >>]
          /\ Goto(p, "ev_del_pointer")
     ELSE Goto(p, "tok_members") /\ UNCHANGED <<session, evictedFrom>>
  /\ UNCHANGED <<active_session, refresh_token, user_refresh_tokens, failed_attempts,
                 account_lock, envVars, users, nextSid, req, loc, nAttempts, streak,
                 lastFailAt, prevOutcome, clearedCount, lastLogin, sessionDevice, lastCall, lastActive,
                 auxStore>>

\* EvictDelPointer that leaves the rest of the eviction for later and goes on
\* to issue the new session
EvictDelPointer_IssuesFirst(p) ==
  /\ pc[p] = "ev_del_pointer"
  /\ active_session' = IF ready
                       THEN [active_session EXCEPT ![loc[p].user] = NoSid]
                       ELSE active_session
  /\ Goto(p, "sess_setex")
  /\ UNCHANGED <<session, refresh_token, user_refresh_tokens, failed_attempts,
                 account_lock, envVars, users, nextSid, req, loc, histVars, auxStore>>

\* redis.js 155: DEL active_session:<userId>
EvictDelPointer(p) ==
  /\ pc[p] = "ev_del_pointer"
  /\ active_session' = IF ready
                       THEN [active_session EXCEPT ![loc[p].user] = NoSid]
                       ELSE active_session
  /\ Goto(p, "tok_members")
  /\ UNCHANGED <<session, refresh_token, user_refresh_tokens, failed_attempts,
                 account_lock, envVars, users, nextSid, req, loc, histVars, auxStore>>

\* redis.js 189-191: deleteAllUserRefreshTokens reads the user's token set
TokensMembers(p) ==
  /\ pc[p] = "tok_members"
  /\ IF ready
     THEN /\ loc' = [loc EXCEPT ![p].toks = user_refresh_tokens[loc[p].user].members]
          /\ Goto(p, IF user_refresh_tokens[loc[p].user].members # {} THEN "tok_pipeline"
                     ELSE "sess_setex")
     ELSE Goto(p, "sess_setex") /\ UNCHANGED loc
  /\ UNCHANGED <<storeVars, envVars, users, nextSid, req, histVars>>

\* TokensPipeline that deletes one token record per round trip
TokensPipeline_OneAtATime(p) ==
  /\ pc[p] = "tok_pipeline"
  /\ LET m == CHOOSE t \in loc[p].toks : \A o \in loc[p].toks : t <= o
         rest == loc[p].toks \ {m}
     IN /\ refresh_token' = [refresh_token EXCEPT ![m] = NoToken]
        /\ loc' = [loc EXCEPT ![p].toks = rest]
        /\ IF rest = {}
           THEN /\ user_refresh_tokens' = [user_refresh_tokens EXCEPT ![loc[p].user] = NoSet]
                /\ Goto(p, "sess_setex")
           ELSE UNCHANGED <<user_refresh_tokens, pc, resp>>
  /\ UNCHANGED <<session, active_session, failed_attempts, account_lock,
                 envVars, users, nextSid, req, histVars, auxStore>>

\* redis.js 193-202: one pipeline deleting every token record and the set
TokensPipeline(p) ==
  /\ pc[p] = "tok_pipeline"
  /\ IF ready
     THEN /\ refresh_token' = [t \in Sids |-> IF t \in loc[p].toks THEN NoToken
                                              ELSE refresh_token[t]]
          /\ user_refresh_tokens' = [user_refresh_tokens EXCEPT ![loc[p].user] = NoSet]
     ELSE UNCHANGED <<refresh_token, user_refresh_tokens>>
  /\ Goto(p, "sess_setex")
  /\ UNCHANGED <<session, active_session, failed_attempts, account_lock,
                 envVars, users, nextSid, req, loc, histVars, auxStore>>

\* SessionSetex that writes the session record without a time to live
SessionSetex_NoTTL(p) ==
  /\ pc[p] = "sess_setex"
  /\ loc' = [loc EXCEPT ![p].sid = nextSid]
  /\ nextSid' = nextSid + 1
  /\ IF ready
     THEN /\ session' = [session EXCEPT ![nextSid] =
                           [userId |-> loc[p].user, sessionId |-> nextSid,
                            createdAt |-> now, exp |-> 0]]
          /\ Goto(p, "ptr_set")
     ELSE Goto(p, "rt_setex") /\ UNCHANGED session
  /\ sessionDevice' = [sessionDevice EXCEPT ![nextSid] = loc[p].deviceId]
  /\ lastActive' = [lastActive EXCEPT ![nextSid] = now]
  /\ UNCHANGED <<active_session, refresh_token, user_refresh_tokens, failed_attempts,
                 account_lock, envVars, users, req, nAttempts, streak, lastFailAt,
                 prevOutcome, clearedCount, lastLogin, evictedFrom, lastCall, auxStore>>

\* auth.js 151 and redis.js 85-92: a fresh session id, then SETEX session:<sessionId>
SessionSetex(p) ==
  /\ pc[p] = "sess_setex"
  /\ loc' = [loc EXCEPT ![p].sid = nextSid]
  /\ nextSid' = nextSid + 1
  /\ IF ready
     THEN /\ session' = [session EXCEPT ![nextSid] =
                           [userId |-> loc[p].user, sessionId |-> nextSid,
                            createdAt |-> now, exp |-> now + SESSION_TIMEOUT]]
          /\ Goto(p, "ptr_set")
     ELSE Goto(p, "rt_setex") /\ UNCHANGED session
  /\ sessionDevice' = [sessionDevice EXCEPT ![nextSid] = loc[p].deviceId]
  /\ lastActive' = [lastActive EXCEPT ![nextSid] = now]
  /\ UNCHANGED <<active_session, refresh_token, user_refresh_tokens, failed_attempts,
                 account_lock, envVars, users, req, nAttempts, streak, lastFailAt,
                 prevOutcome, clearedCount, lastLogin, evictedFrom, lastCall, auxStore>>

\* PointerSet that writes the pointer only when the user has none
PointerSet_KeepsExisting(p) ==
  /\ pc[p] = "ptr_set"
  /\ active_session' = IF ready /\ active_session[loc[p].user] = NoSid
                       THEN [active_session EXCEPT ![loc[p].user] = loc[p].sid]
                       ELSE active_session
  /\ Goto(p, "rt_setex")
  /\ UNCHANGED <<session, refresh_token, user_refresh_tokens, failed_attempts,
                 account_lock, envVars, users, nextSid, req, loc, histVars, auxStore>>

\* redis.js 93: SET active_session:<userId> <sessionId>
PointerSet(p) ==
  /\ pc[p] = "ptr_set"
  /\ active_session' = IF ready
                       THEN [active_session EXCEPT ![loc[p].user] = loc[p].sid]
                       ELSE active_session
  /\ Goto(p, "rt_setex")
  /\ UNCHANGED <<session, refresh_token, user_refresh_tokens, failed_attempts,
                 account_lock, envVars, users, nextSid, req, loc, histVars, auxStore>>

\* auth.js 158-165 and redis.js 118-122: generateTokens, SETEX refresh_token:<token>
RefreshSetex(p) ==
  /\ pc[p] = "rt_setex"
  /\ IF ready
     THEN /\ refresh_token' = [refresh_token EXCEPT ![loc[p].sid] =
                                 [userId |-> loc[p].user, sessionId |-> loc[p].sid,
                                  exp |-> now + REFRESH_TOKEN_EXPIRE]]
          /\ Goto(p, "rt_sadd")
     ELSE Goto(p, "save") /\ UNCHANGED refresh_token
  /\ UNCHANGED <<session, active_session, user_refresh_tokens, failed_attempts,
                 account_lock, envVars, users, nextSid, req, loc, histVars, auxStore>>

\* redis.js 124: SADD user_refresh_tokens:<userId> <token>
RefreshSadd(p) ==
  /\ pc[p] = "rt_sadd"
  /\ IF ready
     THEN /\ user_refresh_tokens' =
               [user_refresh_tokens EXCEPT ![loc[p].user].members = @ \cup {loc[p].sid}]
          /\ Goto(p, "rt_expire")
     ELSE Goto(p, "save") /\ UNCHANGED user_refresh_tokens
  /\ UNCHANGED <<session, active_session, refresh_token, failed_attempts,
                 account_lock, envVars, users, nextSid, req, loc, histVars, auxStore>>

\* RefreshExpire that arms the TTL of the set only when the set has none
RefreshExpire_OnlyWhenNew(p) ==
  /\ pc[p] = "rt_expire"
  /\ user_refresh_tokens' =
       IF ready /\ user_refresh_tokens[loc[p].user].members # {}
                /\ user_refresh_tokens[loc[p].user].exp = 0
       THEN [user_refresh_tokens EXCEPT ![loc[p].user].exp = now + REFRESH_TOKEN_EXPIRE]
       ELSE user_refresh_tokens
  /\ Goto(p, "save")
  /\ UNCHANGED <<session, active_session, refresh_token, failed_attempts,
                 account_lock, envVars, users, nextSid, req, loc, histVars, auxStore>>

\* redis.js 125: EXPIRE user_refresh_tokens:<userId>
RefreshExpire(p) ==
  /\ pc[p] = "rt_expire"
  /\ user_refresh_tokens' =
       IF ready /\ user_refresh_tokens[loc[p].user].members # {}
       THEN [user_refresh_tokens EXCEPT ![loc[p].user].exp = now + REFRESH_TOKEN_EXPIRE]
       ELSE user_refresh_tokens
  /\ Goto(p, "save")
  /\ UNCHANGED <<session, active_session, refresh_token, failed_attempts,
                 account_lock, envVars, users, nextSid, req, loc, histVars, auxStore>>

\* deactivateOthers that leaves every entry as it is
deactivateOthers_None(devices, deviceId) == devices

\* auth.js 142-146: every other device of the loaded user is marked inactive
deactivateOthers(devices, deviceId) ==
  [i \in 1 .. Len(devices) |->
     IF devices[i].deviceId # deviceId THEN [devices[i] EXCEPT !.isActive = FALSE]
     ELSE devices[i]]

\* auth.js 189-201: the deviceLogout part of the response
deviceLogout(previousDeviceInfo) ==
  IF previousDeviceInfo = << >> THEN << >>
  ELSE LET d == previousDeviceInfo[1] IN
       << [wasLoggedOut |-> TRUE, browser |-> d.agent.browser, os |-> d.agent.os,
           deviceType |-> d.agent.dtype, deviceId |-> d.deviceId, lastSeen |-> d.lastSeen] >>

\* auth.js 167-203: lastLogin, updateDeviceInfo, save, and the response
SaveUser(p) ==
  /\ pc[p] = "save"
  /\ LET u == loc[p].user
         devices == updateDeviceInfo(deactivateOthers(loc[p].devices, loc[p].deviceId),
                                     req[p].agent, req[p].ip, now)
     IN IF mongoUp
        THEN /\ users' = [users EXCEPT ![u].lastLogin = now, ![u].devices = devices,
                                       ![u].lastDeviceInfo = req[p].agent]
             /\ Respond(p, [NoResp EXCEPT !.kind = "success", !.status = 200,
                                          !.sid = loc[p].sid,
                                          !.deviceLogout = deviceLogout(loc[p].previousDeviceInfo),
                                          !.totalDevices = Len(devices)])
        ELSE Respond(p, ErrorResponse) /\ UNCHANGED users
  /\ UNCHANGED <<storeVars, envVars, nextSid, req, loc, histVars>>

\* the response has been sent; the handler's locals are gone
Finish(p) ==
  /\ pc[p] = "done"
  /\ prevOutcome' = IF req[p].op = "login"
                    THEN [prevOutcome EXCEPT ![Identifier(p)] = resp[p].kind]
                    ELSE prevOutcome
  /\ lastLogin' = IF req[p].op = "login" /\ resp[p].kind = "success"
                  THEN [lastLogin EXCEPT ![loc[p].user] =
                          [sid |-> resp[p].sid,
                           entry |-> SelectSeq(users[loc[p].user].devices,
                                               LAMBDA d : d.deviceId = loc[p].deviceId)]]
                  ELSE lastLogin
  /\ pc' = [pc EXCEPT ![p] = "idle"]
  /\ req' = [req EXCEPT ![p] = NoReq]
  /\ loc' = [loc EXCEPT ![p] = NoLoc]
  /\ resp' = [resp EXCEPT ![p] = NoResp]
  /\ UNCHANGED <<storeVars, envVars, users, nextSid, nAttempts, streak, lastFailAt, clearedCount, auxHist>>

(* ----------------- session and token services (config/redis.js) ------- *)
\* refreshSession (not forced) is a no-op while the throttle marker of the
\* session is younger than the throttle window
throttled(sid) ==
  session_refresh[sid].exp # 0 /\ now - session_refresh[sid].at < SESSION_REFRESH_THROTTLE

\* refreshSession, redis.js 166-178: the throttle markers afterwards
refreshSessionMarkers(sid) ==
  IF ~ready \/ throttled(sid) THEN session_refresh
  ELSE [session_refresh EXCEPT ![sid] = [at |-> now, exp |-> now + SESSION_REFRESH_THROTTLE]]

\* refreshSession, redis.js 181: the session records afterwards (EXPIRE acts
\* on an existing key only)
refreshSessionRecords(sid) ==
  IF ~ready \/ throttled(sid) \/ session[sid].userId = NoUser THEN session
  ELSE [session EXCEPT ![sid].exp = now + SESSION_TIMEOUT]

\* deleteSession: DEL session:<sid> and DEL active_session:<userId of the record>
deleteSessionRecords(sessions, sid) ==
  IF ready /\ sessions[sid].userId # NoUser THEN [sessions EXCEPT ![sid] = NoSession]
  ELSE sessions

deleteSessionPointers(sessions, sid) ==
  IF ready /\ sessions[sid].userId # NoUser
  THEN [active_session EXCEPT ![sessions[sid].userId] = NoSid]
  ELSE active_session

\* deleteAllUserSessions: the session the pointer names, then the pointer
deleteAllUserSessionsRecords(sessions, u) ==
  IF ready /\ active_session[u] # NoSid THEN [sessions EXCEPT ![active_session[u]] = NoSession]
  ELSE sessions

deleteAllUserSessionsPointers(u) ==
  IF ready THEN [active_session EXCEPT ![u] = NoSid] ELSE active_session

\* deleteAllUserRefreshTokens that deletes the set and leaves the token records
deleteAllUserRefreshTokensRecords_SetOnly(u) == refresh_token

\* deleteAllUserRefreshTokens: every member of the set, then the set
deleteAllUserRefreshTokensRecords(u) ==
  IF ready /\ user_refresh_tokens[u].members # {}
  THEN [t \in Sids |-> IF t \in user_refresh_tokens[u].members THEN NoToken
                       ELSE refresh_token[t]]
  ELSE refresh_token

deleteAllUserRefreshTokensSets(u) ==
  IF ready /\ user_refresh_tokens[u].members # {}
  THEN [user_refresh_tokens EXCEPT ![u] = NoSet]
  ELSE user_refresh_tokens

\* deleteRefreshToken: DEL refresh_token:<token>, SREM from the set of its user
deleteRefreshTokenRecords(tok) ==
  IF ready THEN [refresh_token EXCEPT ![tok] = NoToken] ELSE refresh_token

deleteRefreshTokenSets(tok) ==
  IF ready /\ refresh_token[tok].userId # NoUser
  THEN LET u == refresh_token[tok].userId
           left == user_refresh_tokens[u].members \ {tok}
       IN [user_refresh_tokens EXCEPT ![u] = IF left = {} THEN NoSet
                                               ELSE [@ EXCEPT !.members = left]]
  ELSE user_refresh_tokens

\* tokenService.getResetTokenData
getResetTokenData(t) ==
  IF ready /\ reset_token[t].userId # NoUser THEN <<reset_token[t]>> ELSE << >>

(* ------------------------ models/User.js ------------------------------ *)
\* deactivateDevice that reports an already inactive device as not found
deactivateDevice_FalseWhenInactive(devices, deviceId) ==
  LET i == findDeviceIndex(devices, deviceId)
  IN IF i # 0 /\ devices[i].isActive
     THEN [ret |-> TRUE, devices |-> [devices EXCEPT ![i].isActive = FALSE]]
     ELSE [ret |-> FALSE, devices |-> devices]

\* deactivateDevice: the first entry with this deviceId is marked inactive
deactivateDevice(devices, deviceId) ==
  LET i == findDeviceIndex(devices, deviceId)
  IN IF i # 0
     THEN [ret |-> TRUE, devices |-> [devices EXCEPT ![i].isActive = FALSE]]
     ELSE [ret |-> FALSE, devices |-> devices]

(* -------------------- the other routes (routes/auth.js) --------------- *)
Request(op) ==
  [op |-> op, email |-> "none", password |-> "none", ip |-> "none", agent |-> NoAgent,
   user |-> NoUser, sid |-> NoSid, tok |-> NoSid, deviceId |-> << >>,
   newPassword |-> "none", rtoken |-> "none", mailFails |-> FALSE, force |-> FALSE]

Response(kind, status) == [NoResp EXCEPT !.kind = kind, !.status = status]

\* a client sends request r while no other request is being handled
StartRequest(p, r, limit) ==
  /\ pc[p] = "idle"
  /\ \A q \in Procs : pc[q] = "idle"
  /\ nAttempts < limit
  /\ nAttempts' = nAttempts + 1
  /\ req' = [req EXCEPT ![p] = r]
  /\ pc' = [pc EXCEPT ![p] = r.op]
  /\ UNCHANGED <<storeVars, envVars, users, nextSid, loc, resp, streak, lastFailAt,
                 prevOutcome, clearedCount, lastLogin, auxHist>>

\* the keys a handler leaves as they are
StoreAfter(s, m, a, r, t) ==
  /\ session' = s
  /\ session_refresh' = m
  /\ active_session' = a
  /\ refresh_token' = r
  /\ user_refresh_tokens' = t

StoreUntouched == StoreAfter(session, session_refresh, active_session, refresh_token,
                             user_refresh_tokens)

\* authenticateToken passed: only the session refresh has happened
StoreAfterAuth(sid) ==
  StoreAfter(refreshSessionRecords(sid), refreshSessionMarkers(sid), active_session,
             refresh_token, user_refresh_tokens)

\* the session of an access token that authenticateToken lets pass has just
\* been used
AuthenticatedActivity(p) ==
  lastActive' = IF authenticateTokenAccepts(req[p].user, req[p].sid)
                THEN [lastActive EXCEPT ![req[p].sid] = now]
                ELSE lastActive

\* POST /logout, auth.js 207-223
Logout(p) ==
  /\ pc[p] = "logout"
  /\ LET u == req[p].user
         sid == req[p].sid
         refreshed == refreshSessionRecords(sid)
     IN IF ~authenticateTokenAccepts(u, sid)
        THEN StoreUntouched /\ Respond(p, Response(authenticateToken(req[p].user, req[p].sid), 401))
        ELSE /\ StoreAfter(deleteSessionRecords(refreshed, sid),
                           refreshSessionMarkers(sid),
                           deleteSessionPointers(refreshed, sid),
                           deleteAllUserRefreshTokensRecords(u),
                           deleteAllUserRefreshTokensSets(u))
             /\ Respond(p, Response("success", 200))
  /\ UNCHANGED <<failed_attempts, account_lock, reset_token, envVars, users, nextSid,
                 req, loc, histButActive>>
  /\ AuthenticatedActivity(p)

\* POST /change-password, auth.js 300-346
ChangePassword(p) ==
  /\ pc[p] = "change-password"
  /\ LET u == req[p].user
         sid == req[p].sid
     IN IF ~authenticateTokenAccepts(u, sid)
        THEN StoreUntouched /\ Respond(p, Response(authenticateToken(req[p].user, req[p].sid), 401)) /\ UNCHANGED users
        ELSE IF ~mongoUp
        THEN StoreAfterAuth(sid) /\ Respond(p, ErrorResponse) /\ UNCHANGED users
        ELSE IF req[p].password # users[u].password
        THEN StoreAfterAuth(sid) /\ Respond(p, Response("badrequest", 400)) /\ UNCHANGED users
        ELSE /\ users' = [users EXCEPT ![u].password = req[p].newPassword]
             /\ StoreAfter(deleteAllUserSessionsRecords(refreshSessionRecords(sid), u),
                           refreshSessionMarkers(sid),
                           deleteAllUserSessionsPointers(u),
                           refresh_token, user_refresh_tokens)
             /\ Respond(p, Response("success", 200))
  /\ UNCHANGED <<failed_attempts, account_lock, reset_token, envVars, nextSid,
                 req, loc, histButActive>>
  /\ AuthenticatedActivity(p)

\* POST /forgot-password, auth.js 348-382: a fresh reset token for an existing
\* user, then sendResetEmail (utils/email.js 13-98), which throws when the
\* transport fails (mailFails); the route's catch turns that into a 500
ForgotPassword(p) ==
  /\ pc[p] = "forgot-password"
  /\ IF ~mongoUp
     THEN Respond(p, ErrorResponse) /\ UNCHANGED reset_token
     ELSE IF req[p].email \in Users
     THEN /\ reset_token' = IF ready
                            THEN [reset_token EXCEPT ![req[p].rtoken] =
                                    [userId |-> req[p].email, exp |-> now + RESET_TOKEN_EXPIRE]]
                            ELSE reset_token
          /\ IF req[p].mailFails
             THEN Respond(p, ErrorResponse)
             ELSE Respond(p, Response("success", 200))
     ELSE /\ UNCHANGED reset_token
          /\ Respond(p, Response("success", 200))
  /\ UNCHANGED <<session, active_session, refresh_token, user_refresh_tokens, failed_attempts,
                 account_lock, session_refresh, envVars, users, nextSid, req, loc, histVars>>

\* POST /reset-password, auth.js 384-431
ResetPassword(p) ==
  /\ pc[p] = "reset-password"
  /\ LET tokenData == getResetTokenData(req[p].rtoken)
     IN IF tokenData = << >>
        THEN /\ Respond(p, Response("badrequest", 400))
             /\ UNCHANGED <<session, active_session, reset_token, users, loc>>
        ELSE IF ~mongoUp
        THEN /\ Respond(p, ErrorResponse)
             /\ UNCHANGED <<session, active_session, reset_token, users, loc>>
        ELSE LET u == tokenData[1].userId IN
             /\ loc' = [loc EXCEPT ![p].user = u]
             /\ users' = [users EXCEPT ![u].password = req[p].newPassword]
             /\ reset_token' = [reset_token EXCEPT ![req[p].rtoken] = NoResetToken]
             /\ session' = deleteAllUserSessionsRecords(session, u)
             /\ active_session' = deleteAllUserSessionsPointers(u)
             /\ Respond(p, Response("success", 200))
  /\ UNCHANGED <<refresh_token, user_refresh_tokens, failed_attempts, account_lock,
                 session_refresh, envVars, nextSid, req, histVars>>

\* RefreshToken that does not look for the session
RefreshToken_SessionUnchecked(p) ==
  /\ pc[p] = "refresh-token"
  /\ LET tok == req[p].tok
         tokenData == getRefreshToken(tok)
     IN /\ loc' = [loc EXCEPT ![p].tokenData = tokenData]
        /\ IF tok >= nextSid
           THEN StoreUntouched /\ Respond(p, Response("token_invalid", 401))
           ELSE IF tokenData = << >>
           THEN StoreUntouched /\ Respond(p, Response("token_not_found", 401))
           ELSE IF ~mongoUp
           THEN StoreUntouched /\ Respond(p, ErrorResponse)
           ELSE IF ~users[req[p].user].isActive
           THEN /\ StoreAfter(session, session_refresh, active_session,
                              deleteRefreshTokenRecords(tok), deleteRefreshTokenSets(tok))
                /\ Respond(p, Response("user_inactive", 401))
           ELSE /\ StoreAfterAuth(tok)
                /\ Respond(p, [Response("success", 200) EXCEPT !.sid = tok])
  /\ UNCHANGED <<failed_attempts, account_lock, reset_token, envVars, users, nextSid,
                 req, histButActive>>
  /\ lastActive' = IF resp'[p].kind = "success"
                   THEN [lastActive EXCEPT ![req[p].tok] = now]
                   ELSE lastActive

\* POST /refresh-token, auth.js 494-572; the refresh token of session s is
\* token s, and jwt.verify accepts exactly the tokens that were issued
RefreshToken(p) ==
  /\ pc[p] = "refresh-token"
  /\ LET tok == req[p].tok
         tokenData == getRefreshToken(tok)
     IN /\ loc' = [loc EXCEPT ![p].tokenData = tokenData]
        /\ IF tok >= nextSid
           THEN StoreUntouched /\ Respond(p, Response("token_invalid", 401))
           ELSE IF tokenData = << >>
           THEN StoreUntouched /\ Respond(p, Response("token_not_found", 401))
           ELSE IF getSession(tok) = << >>
           THEN /\ StoreAfter(session, session_refresh, active_session,
                              deleteRefreshTokenRecords(tok), deleteRefreshTokenSets(tok))
                /\ Respond(p, Response("session_expired", 401))
           ELSE IF ~mongoUp
           THEN StoreUntouched /\ Respond(p, ErrorResponse)
           ELSE IF ~users[req[p].user].isActive
           THEN /\ StoreAfter(session, session_refresh, active_session,
                              deleteRefreshTokenRecords(tok), deleteRefreshTokenSets(tok))
                /\ Respond(p, Response("user_inactive", 401))
           ELSE /\ StoreAfterAuth(tok)
                /\ Respond(p, [Response("success", 200) EXCEPT !.sid = tok])
  /\ UNCHANGED <<failed_attempts, account_lock, reset_token, envVars, users, nextSid,
                 req, histButActive>>
  /\ lastActive' = IF resp'[p].kind = "success"
                   THEN [lastActive EXCEPT ![req[p].tok] = now]
                   ELSE lastActive

\* POST /devices/:deviceId/deactivate, auth.js 459-492
DeactivateDeviceRoute(p) ==
  /\ pc[p] = "deactivate-device"
  /\ LET u == req[p].user
         sid == req[p].sid
         r == deactivateDevice(users[u].devices, req[p].deviceId)
     IN IF ~authenticateTokenAccepts(u, sid)
        THEN StoreUntouched /\ Respond(p, Response(authenticateToken(req[p].user, req[p].sid), 401)) /\ UNCHANGED users
        ELSE IF ~mongoUp
        THEN StoreAfterAuth(sid) /\ Respond(p, ErrorResponse) /\ UNCHANGED users
        ELSE IF ~r.ret
        THEN StoreAfterAuth(sid) /\ Respond(p, Response("notfound", 404)) /\ UNCHANGED users
        ELSE /\ users' = [users EXCEPT ![u].devices = r.devices]
             /\ StoreAfterAuth(sid)
             /\ Respond(p, Response("success", 200))
  /\ UNCHANGED <<failed_attempts, account_lock, reset_token, envVars, nextSid,
                 req, loc, histButActive>>
  /\ AuthenticatedActivity(p)

\* GET /session-status, auth.js 258-274: sessionService has no member
\* getSessionTimeLeft (redis.js 82-206), so the call at line 260 throws a
\* TypeError inside the try block and the catch answers 500
SessionStatus(p) ==
  /\ pc[p] = "session-status"
  /\ IF ~authenticateTokenAccepts(req[p].user, req[p].sid)
     THEN StoreUntouched /\ Respond(p, Response(authenticateToken(req[p].user, req[p].sid), 401))
     ELSE StoreAfterAuth(req[p].sid) /\ Respond(p, ErrorResponse)
  /\ UNCHANGED <<failed_attempts, account_lock, reset_token, envVars, users, nextSid,
                 req, loc, histButActive>>
  /\ AuthenticatedActivity(p)

(* ------------------------------ the clock ----------------------------- *)
\* d seconds pass while no request is being handled; every key whose TTL has
\* run out is gone (SETEX / EXPIRE semantics of the store)
Elapse(d, limit) ==
  /\ \A p \in Procs : pc[p] = "idle"
  /\ now + d <= limit
  /\ now' = now + d
  /\ session' = [s \in Sids |-> IF session[s].exp # 0 /\ session[s].exp <= now + d
                                THEN NoSession ELSE session[s]]
  /\ refresh_token' = [s \in Sids |-> IF refresh_token[s].exp # 0 /\ refresh_token[s].exp <= now + d
                                      THEN NoToken ELSE refresh_token[s]]
  /\ user_refresh_tokens' = [u \in Users |->
        IF user_refresh_tokens[u].exp # 0 /\ user_refresh_tokens[u].exp <= now + d
        THEN NoSet ELSE user_refresh_tokens[u]]
  /\ failed_attempts' = [id \in Identifiers |->
        IF failed_attempts[id].exp # 0 /\ failed_attempts[id].exp <= now + d
        THEN NoCounter ELSE failed_attempts[id]]
  /\ account_lock' = [id \in Identifiers |->
        IF account_lock[id] # 0 /\ account_lock[id] <= now + d THEN 0 ELSE account_lock[id]]
  /\ reset_token' = [t \in ResetTokens |->
        IF reset_token[t].exp # 0 /\ reset_token[t].exp <= now + d
        THEN NoResetToken ELSE reset_token[t]]
  /\ session_refresh' = [s \in Sids |->
        IF session_refresh[s].exp # 0 /\ session_refresh[s].exp <= now + d
        THEN NoMarker ELSE session_refresh[s]]
  /\ UNCHANGED <<active_session, ready, mongoUp, users, nextSid, pc, req, loc, resp, histVars>>

\* the clock of the behaviours that end within one lockout window
Tick(d) == Elapse(d, MaxTime)

(* --------------------------- the environment -------------------------- *)
\* the account is deactivated in the durable store (User.isActive); no route
\* of the service sets the flag back
DeactivateAccount(u) ==
  /\ \A p \in Procs : pc[p] = "idle"
  /\ users[u].isActive
  /\ users' = [users EXCEPT ![u].isActive = FALSE]
  /\ UNCHANGED <<storeVars, envVars, nextSid, pc, req, loc, resp, histVars>>

(* --------------------------- specifications --------------------------- *)
\* the steps of a login whose credential check fails
FailureStep(p) ==
  \/ IncrAttempts(p)
  \/ ExpireAttempts(p)
  \/ LockAccount(p)

\* the steps of a login whose credential check passes
SuccessStep(p) ==
  \/ CheckLock(p)
  \/ FindUser(p)
  \/ ClearAttempts(p)
  \/ EvictGetPointer(p)
  \/ EvictDelSession(p)
  \/ EvictDelPointer(p)
  \/ TokensMembers(p)
  \/ TokensPipeline(p)
  \/ SessionSetex(p)
  \/ PointerSet(p)
  \/ RefreshSetex(p)
  \/ RefreshSadd(p)
  \/ RefreshExpire(p)
  \/ SaveUser(p)
  \/ Finish(p)

\* requests handled one at a time, both stores reachable
Next ==
  \/ \E e \in Emails, pw \in Passwords, ip \in IPs, a \in UserAgents :
       StartLogin("r1", e, pw, ip, a, FALSE, MaxAttempts)
  \/ SuccessStep("r1")
  \/ FailureStep("r1")
  \/ Tick(TickSeconds)
  \/ \E u \in Users : DeactivateAccount(u)

Spec == Init /\ [][Next]_vars

\* requests of one user handled concurrently: any interleaving of their
\* store commands
NextConc ==
  \/ \E p \in Procs, ip \in IPs, a \in UserAgents :
       StartLogin(p, "alice", "good", ip, a, TRUE, MaxLogins)
  \/ \E p \in Procs : SuccessStep(p)

SpecConc == Init /\ [][NextConc]_vars

\* the fast store and the durable store become unreachable and come back
StoreDown == ready /\ ready' = FALSE /\ UNCHANGED <<storeVars, mongoUp, now, users, nextSid, pc, req, loc, resp, histVars>>
StoreUp == ~ready /\ ready' = TRUE /\ UNCHANGED <<storeVars, mongoUp, now, users, nextSid, pc, req, loc, resp, histVars>>
MongoDown == mongoUp /\ mongoUp' = FALSE /\ UNCHANGED <<storeVars, ready, now, users, nextSid, pc, req, loc, resp, histVars>>
MongoUp == ~mongoUp /\ mongoUp' = TRUE /\ UNCHANGED <<storeVars, ready, now, users, nextSid, pc, req, loc, resp, histVars>>

\* requests handled one at a time while the stores fail and recover
NextFail ==
  \/ \E ip \in IPs, a \in UserAgents :
       StartLogin("r1", "alice", "good", ip, a, FALSE, MaxFailLogins)
  \/ SuccessStep("r1")
  \/ StoreDown
  \/ StoreUp
  \/ MongoDown
  \/ MongoUp

SpecFail == Init /\ [][NextFail]_vars

\* the session life cycle of one user, requests handled one at a time, both
\* stores reachable: logins with the current password, logout, password
\* change and reset, refresh-token exchange, device deactivation
NextLife ==
  \/ \E pw \in Passwords \cup NewPasswords, ip \in IPs, a \in UserAgents :
       /\ pw = users["alice"].password
       /\ StartLogin("r1", "alice", pw, ip, a, FALSE, MaxRequests)
  \/ SuccessStep("r1")
  \/ \E s \in Sids :
       /\ s < nextSid
       /\ StartRequest("r1", [Request("logout") EXCEPT !.user = "alice", !.sid = s], MaxRequests)
  \/ Logout("r1")
  \/ \E s \in Sids, cur \in Passwords \cup NewPasswords, new \in NewPasswords :
       /\ s < nextSid
       /\ StartRequest("r1", [Request("change-password") EXCEPT !.user = "alice", !.sid = s,
                                 !.password = cur, !.newPassword = new], MaxRequests)
  \/ ChangePassword("r1")
  \/ \E e \in Emails, t \in ResetTokens, f \in BOOLEAN :
       /\ reset_token[t] = NoResetToken
       /\ StartRequest("r1", [Request("forgot-password") EXCEPT !.email = e, !.rtoken = t,
                                 !.mailFails = f], MaxRequests)
  \/ ForgotPassword("r1")
  \/ \E t \in ResetTokens, new \in NewPasswords :
       StartRequest("r1", [Request("reset-password") EXCEPT !.rtoken = t, !.newPassword = new],
                    MaxRequests)
  \/ ResetPassword("r1")
  \/ \E t \in Sids :
       StartRequest("r1", [Request("refresh-token") EXCEPT !.user = "alice", !.tok = t],
                    MaxRequests)
  \/ RefreshToken("r1")
  \/ \E s \in Sids, d \in DeviceIds :
       /\ s < nextSid
       /\ StartRequest("r1", [Request("deactivate-device") EXCEPT !.user = "alice", !.sid = s,
                                 !.deviceId = d], MaxRequests)
  \/ DeactivateDeviceRoute("r1")
  \/ \E s \in Sids :
       /\ s < nextSid
       /\ StartRequest("r1", [Request("session-status") EXCEPT !.user = "alice", !.sid = s],
                       MaxRequests)
  \/ SessionStatus("r1")
  \/ Tick(TickSeconds)
  \/ \E u \in Users : DeactivateAccount(u)

SpecLife == Init /\ [][NextLife]_vars

\* the session service called directly, one call at a time, store reachable
ServiceEntry(op) ==
  CASE op = "createSession" -> "sess_setex"
    [] op = "storeRefreshToken" -> "rt_setex"
    [] op = "deleteAllUserRefreshTokens" -> "tok_members"
    [] op = "deleteAllUserSessions" -> "ev_get"

\* the label the commands of a service function end at
ServiceExit(op) ==
  CASE op = "createSession" -> "rt_setex"
    [] op = "storeRefreshToken" -> "save"
    [] op = "deleteAllUserRefreshTokens" -> "sess_setex"
    [] op = "deleteAllUserSessions" -> "tok_members"
    [] OTHER -> "none"

\* sessionService.<op>(userId, ...) is called; tok is the token of storeRefreshToken
CallService(p, op, u, tok) ==
  /\ pc[p] = "idle"
  /\ \A q \in Procs : pc[q] = "idle"
  /\ nAttempts < MaxStoreCalls
  /\ op = "createSession" => nextSid <= MaxLogins
  /\ nAttempts' = nAttempts + 1
  /\ req' = [req EXCEPT ![p] = [Request(op) EXCEPT !.user = u, !.tok = tok]]
  /\ loc' = [loc EXCEPT ![p] = [NoLoc EXCEPT !.user = u, !.sid = tok]]
  /\ pc' = [pc EXCEPT ![p] = ServiceEntry(op)]
  /\ UNCHANGED <<storeVars, envVars, users, nextSid, resp, streak, lastFailAt,
                 prevOutcome, clearedCount, lastLogin, auxHist>>

\* the service function returns to its caller
ServiceReturn(p) ==
  /\ pc[p] = ServiceExit(req[p].op)
  /\ Respond(p, Response("returned", 0))
  /\ UNCHANGED <<storeVars, envVars, users, nextSid, req, loc, histVars>>

NextStore ==
  \/ \E u \in Users : CallService("r1", "createSession", u, NoSid)
  \/ \E u \in Users, t \in Sids : CallService("r1", "storeRefreshToken", u, t)
  \/ \E u \in Users : CallService("r1", "deleteAllUserRefreshTokens", u, NoSid)
  \/ \E u \in Users : CallService("r1", "deleteAllUserSessions", u, NoSid)
  \/ req["r1"].op = "createSession" /\ SessionSetex("r1")
  \/ req["r1"].op = "createSession" /\ PointerSet("r1")
  \/ req["r1"].op = "storeRefreshToken" /\ RefreshSetex("r1")
  \/ req["r1"].op = "storeRefreshToken" /\ RefreshSadd("r1")
  \/ req["r1"].op = "storeRefreshToken" /\ RefreshExpire("r1")
  \/ req["r1"].op = "deleteAllUserRefreshTokens" /\ TokensMembers("r1")
  \/ req["r1"].op = "deleteAllUserRefreshTokens" /\ TokensPipeline("r1")
  \/ req["r1"].op = "deleteAllUserSessions" /\ EvictGetPointer("r1")
  \/ req["r1"].op = "deleteAllUserSessions" /\ EvictDelSession("r1")
  \/ req["r1"].op = "deleteAllUserSessions" /\ EvictDelPointer("r1")
  \/ ServiceReturn("r1")
  \/ Finish("r1")
  \/ Tick(TickSeconds)

SpecStore == Init /\ [][NextStore]_vars

\* refresh tokens of one user stored and revoked in bulk by direct calls of
\* the session service, one call at a time, while the clock advances by half
\* the life of a token
NextTokens ==
  \/ \E u \in Users, t \in Sids :
       /\ nAttempts < MaxTokenCalls
       /\ CallService("r1", "storeRefreshToken", u, t)
  \/ \E u \in Users :
       /\ nAttempts < MaxTokenCalls
       /\ CallService("r1", "deleteAllUserRefreshTokens", u, NoSid)
  \/ req["r1"].op = "storeRefreshToken" /\ RefreshSetex("r1")
  \/ req["r1"].op = "storeRefreshToken" /\ RefreshSadd("r1")
  \/ req["r1"].op = "storeRefreshToken" /\ RefreshExpire("r1")
  \/ req["r1"].op = "deleteAllUserRefreshTokens" /\ TokensMembers("r1")
  \/ req["r1"].op = "deleteAllUserRefreshTokens" /\ TokensPipeline("r1")
  \/ ServiceReturn("r1")
  \/ Finish("r1")
  \/ Elapse(REFRESH_TOKEN_EXPIRE \div 2, MaxTokenTime)

SpecTokens == Init /\ [][NextTokens]_vars

\* POST /extend-session, auth.js 276-298
ExtendSession(p) ==
  /\ pc[p] = "extend-session"
  /\ LET sid == req[p].sid
         first == refreshSessionMarkers(sid)
     IN IF authenticateToken(req[p].user, sid) # "next"
        THEN StoreUntouched /\ Respond(p, Response(authenticateToken(req[p].user, sid), 401))
        ELSE \* the middleware's refresh wrote the marker, so the route's is throttled
             /\ StoreAfterAuth(sid)
             /\ IF refreshSessionReturn(sid)
                THEN Respond(p, Response("success", 200))
                ELSE Respond(p, Response("badrequest", 400))
  /\ UNCHANGED <<failed_attempts, account_lock, reset_token, envVars, users, nextSid,
                 req, loc, histButActive>>
  /\ AuthenticatedActivity(p)

\* logins of one user with the right or a wrong password and authenticated
\* requests carrying the token of the latest login, one at a time, while the
\* fast store goes away and comes back at any point between two commands
NextOutage ==
  \/ \E pw \in Passwords, ip \in IPs :
       /\ pw = users["alice"].password => nAttempts < MaxOutageLogins
       /\ StartLogin("r1", "alice", pw, ip, agentOf(1), FALSE, MaxOutageRequests)
  \/ SuccessStep("r1")
  \/ FailureStep("r1")
  \/ \E s \in Sids, op \in {"session-status", "extend-session"} :
       /\ s + 1 = nextSid
       /\ StartRequest("r1", [Request(op) EXCEPT !.user = "alice", !.sid = s],
                       MaxOutageRequests)
  \/ SessionStatus("r1")
  \/ ExtendSession("r1")
  \/ StoreDown
  \/ StoreUp

SpecOutage == Init /\ [][NextOutage]_vars

\* the clock steps of a session that is used and left idle: two thirds of
\* the throttle window (one step stays inside the window, two leave it), and
\* the session timeout
ClockSteps == {(2 * SESSION_REFRESH_THROTTLE) \div 3, SESSION_TIMEOUT}

\* logins of one user with the right or a wrong password, one at a time,
\* while the clock advances by half a lockout window between them
NextLock ==
  \/ \E pw \in Passwords, ip \in IPs :
       StartLogin("r1", "alice", pw, ip, agentOf(1), FALSE, MaxAttempts)
  \/ SuccessStep("r1")
  \/ FailureStep("r1")
  \/ Tick(LOCKOUT_TIME \div 2)

SpecLock == Init /\ [][NextLock]_vars

\* logins of one user with a wrong password, handled concurrently, inside
\* one lockout window
NextGuess ==
  \/ \E p \in Procs, ip \in IPs :
       StartLogin(p, "alice", "bad", ip, agentOf(1), TRUE, MaxAttempts)
  \/ \E p \in Procs :
       \/ CheckLock(p)
       \/ FindUser(p)
       \/ FailureStep(p)
       \/ Finish(p)

SpecGuess == Init /\ [][NextGuess]_vars

\* logins that fail their credential check, handled concurrently, while
\* the clock advances by half a lockout window between them
NextCounter ==
  \/ \E p \in Procs, e \in Emails, ip \in IPs :
       StartLogin(p, e, "bad", ip, agentOf(1), TRUE, MaxCounterAttempts)
  \/ \E p \in Procs :
       \/ CheckLock(p)
       \/ FindUser(p)
       \/ FailureStep(p)
       \/ Finish(p)
  \/ Tick(LOCKOUT_TIME \div 2)

SpecCounter == Init /\ [][NextCounter]_vars

\* sessionService.refreshSession(sessionId, force) command by command
\* (redis.js 159-184); with overlap = FALSE only while no other call runs
CallRefreshSession(p, sid, force, overlap) ==
  /\ pc[p] = "idle"
  /\ overlap \/ \A q \in Procs : pc[q] = "idle"
  /\ \A q \in Procs : req[q].op \in {"none", "refreshSession"}
  /\ nAttempts < MaxRefreshCalls
  /\ nAttempts' = nAttempts + 1
  /\ req' = [req EXCEPT ![p] = [Request("refreshSession") EXCEPT !.sid = sid, !.force = force]]
  /\ pc' = [pc EXCEPT ![p] = IF force THEN "rs_expire" ELSE "rs_get"]
  /\ lastCall' = [NoCall EXCEPT !.op = "refreshSession",
                                 !.before = <<session[sid], session_refresh[sid]>>]
  /\ UNCHANGED <<storeVars, envVars, users, nextSid, loc, resp, streak, lastFailAt,
                 prevOutcome, clearedCount, lastLogin, sessionDevice, evictedFrom, lastActive>>

\* RefreshGetMarker that never finds the call throttled
RefreshGetMarker_NeverThrottled(p) ==
  /\ pc[p] = "rs_get"
  /\ IF ~ready THEN Respond(p, Response("false", 0)) ELSE Goto(p, "rs_setex")
  /\ UNCHANGED <<storeVars, envVars, users, nextSid, req, loc, histVars>>

\* redis.js 164-174: GET session_refresh:<sessionId>; a marker younger than
\* the throttle window ends the call with true
RefreshGetMarker(p) ==
  /\ pc[p] = "rs_get"
  /\ IF ~ready THEN Respond(p, Response("false", 0))
     ELSE IF throttled(req[p].sid) THEN Respond(p, Response("true", 0))
     ELSE Goto(p, "rs_setex")
  /\ UNCHANGED <<storeVars, envVars, users, nextSid, req, loc, histVars>>

\* redis.js 177: SETEX session_refresh:<sessionId> throttleWindow Date.now()
RefreshSetMarker(p) ==
  /\ pc[p] = "rs_setex"
  /\ IF ~ready
     THEN Respond(p, Response("false", 0)) /\ UNCHANGED session_refresh
     ELSE /\ session_refresh' = [session_refresh EXCEPT ![req[p].sid] =
                                   [at |-> now, exp |-> now + SESSION_REFRESH_THROTTLE]]
          /\ Goto(p, "rs_expire")
  /\ UNCHANGED <<session, active_session, refresh_token, user_refresh_tokens, failed_attempts,
                 account_lock, reset_token, envVars, users, nextSid, req, loc, histVars>>

\* redis.js 181-182: EXPIRE session:<sessionId> sessionTimeout; return true
SessionExpire(p) ==
  /\ pc[p] = "rs_expire"
  /\ IF ~ready
     THEN Respond(p, Response("false", 0)) /\ UNCHANGED session
     ELSE /\ session' = IF session[req[p].sid].userId # NoUser
                        THEN [session EXCEPT ![req[p].sid].exp = now + SESSION_TIMEOUT]
                        ELSE session
          /\ Respond(p, Response("true", 0))
  /\ UNCHANGED <<active_session, refresh_token, user_refresh_tokens, failed_attempts,
                 account_lock, reset_token, session_refresh, envVars, users, nextSid,
                 req, loc, histVars>>

\* sessions are created and refreshed, forced or not, one call at a time,
\* while the clock advances between the calls
NextThrottle ==
  \/ \E u \in Users :
       /\ nAttempts < MaxRefreshCalls /\ nextSid <= MaxRefreshSessions
       /\ CallService("r1", "createSession", u, NoSid)
  \/ req["r1"].op = "createSession" /\ SessionSetex("r1")
  \/ req["r1"].op = "createSession" /\ PointerSet("r1")
  \/ ServiceReturn("r1")
  \/ \E s \in Sids, force \in BOOLEAN :
       s < nextSid /\ CallRefreshSession("r1", s, force, FALSE)
  \/ RefreshGetMarker("r1")
  \/ RefreshSetMarker("r1")
  \/ SessionExpire("r1")
  \/ Finish("r1")
  \/ \E d \in ClockSteps : now + d <= MaxIdleTime /\ Tick(d)

SpecThrottle == Init /\ [][NextThrottle]_vars

\* a session is created, then refreshSession calls without force run
\* concurrently: any interleaving of their store commands
NextThrottleConc ==
  \/ \E u \in Users :
       /\ nAttempts < MaxRefreshCalls /\ nextSid <= MaxRefreshSessions
       /\ CallService("r1", "createSession", u, NoSid)
  \/ req["r1"].op = "createSession" /\ SessionSetex("r1")
  \/ req["r1"].op = "createSession" /\ PointerSet("r1")
  \/ ServiceReturn("r1")
  \/ \E p \in Procs, s \in Sids :
       s < nextSid /\ CallRefreshSession(p, s, FALSE, TRUE)
  \/ \E p \in Procs :
       \/ RefreshGetMarker(p)
       \/ RefreshSetMarker(p)
       \/ SessionExpire(p)
       \/ Finish(p)
  \/ \E d \in ClockSteps : now + d <= MaxIdleTime /\ Tick(d)

SpecThrottleConc == Init /\ [][NextThrottleConc]_vars

\* POST /reset-password command by command (auth.js 395-417); every await is
\* a point where another request may run
StartReset(p, t, new) ==
  /\ pc[p] = "idle"
  /\ \A q \in Procs : req[q].op \in {"none", "reset-password"}
  /\ nAttempts < MaxResetRequests
  /\ nAttempts' = nAttempts + 1
  /\ req' = [req EXCEPT ![p] = [Request("reset-password") EXCEPT !.rtoken = t,
                                                                 !.newPassword = new]]
  /\ pc' = [pc EXCEPT ![p] = "rp_get"]
  /\ UNCHANGED <<storeVars, envVars, users, nextSid, loc, resp, streak, lastFailAt,
                 prevOutcome, clearedCount, lastLogin, auxHist>>

\* auth.js 396-403: getResetTokenData
ResetGetToken(p) ==
  /\ pc[p] = "rp_get"
  /\ LET tokenData == getResetTokenData(req[p].rtoken)
     IN IF tokenData = << >>
        THEN Respond(p, Response("badrequest", 400)) /\ UNCHANGED loc
        ELSE Goto(p, "rp_find") /\ loc' = [loc EXCEPT ![p].tokenData = tokenData]
  /\ UNCHANGED <<storeVars, envVars, users, nextSid, req, histVars>>

\* auth.js 405-411: User.findById
ResetFindUser(p) ==
  /\ pc[p] = "rp_find"
  /\ IF ~mongoUp
     THEN Respond(p, ErrorResponse) /\ UNCHANGED loc
     ELSE Goto(p, "rp_save") /\ loc' = [loc EXCEPT ![p].user = loc[p].tokenData[1].userId]
  /\ UNCHANGED <<storeVars, envVars, users, nextSid, req, histVars>>

\* auth.js 413-414: the new password is saved
ResetSave(p) ==
  /\ pc[p] = "rp_save"
  /\ IF ~mongoUp
     THEN Respond(p, ErrorResponse) /\ UNCHANGED users
     ELSE /\ Goto(p, "rp_del")
          /\ users' = [users EXCEPT ![loc[p].user].password = req[p].newPassword]
  /\ UNCHANGED <<storeVars, envVars, nextSid, req, loc, histVars>>

\* auth.js 416: deleteResetToken; deleteAllUserSessions (line 417) follows
ResetDeleteToken(p) ==
  /\ pc[p] = "rp_del"
  /\ reset_token' = IF ready THEN [reset_token EXCEPT ![req[p].rtoken] = NoResetToken]
                     ELSE reset_token
  /\ Goto(p, "ev_get")
  /\ UNCHANGED <<session, active_session, refresh_token, user_refresh_tokens, failed_attempts,
                 account_lock, session_refresh, envVars, users, nextSid, req, loc, histVars>>

\* auth.js 419-422: deleteAllUserSessions has returned, the success response
ResetRespond(p) ==
  /\ pc[p] = "tok_members"
  /\ req[p].op = "reset-password"
  /\ Respond(p, Response("success", 200))
  /\ UNCHANGED <<storeVars, envVars, users, nextSid, req, loc, histVars>>

\* a login and a password-reset request, each handled alone, then
\* reset-password requests handled concurrently
NextReset ==
  \/ \E ip \in IPs :
       /\ nAttempts = 0
       /\ StartLogin("r1", "alice", "good", ip, agentOf(1), FALSE, MaxResetRequests)
  \/ req["r1"].op = "login" /\ SuccessStep("r1")
  \/ \E e \in Emails, t \in ResetTokens :
       /\ reset_token[t] = NoResetToken
       /\ StartRequest("r1", [Request("forgot-password") EXCEPT !.email = e, !.rtoken = t],
                       MaxResetRequests)
  \/ ForgotPassword("r1")
  \/ \E p \in Procs, t \in ResetTokens, new \in NewPasswords : StartReset(p, t, new)
  \/ \E p \in Procs :
       \/ ResetGetToken(p)
       \/ ResetFindUser(p)
       \/ ResetSave(p)
       \/ ResetDeleteToken(p)
       \/ req[p].op = "reset-password" /\ EvictGetPointer(p)
       \/ req[p].op = "reset-password" /\ EvictDelSession(p)
       \/ req[p].op = "reset-password" /\ EvictDelPointer(p)
       \/ ResetRespond(p)
       \/ req[p].op # "login" /\ Finish(p)

SpecReset == Init /\ [][NextReset]_vars

\* POST /logout command by command (part_002 16-33, auth.js 207-211,
\* redis.js 106-113); every await is a point where another request may run
StartLogout(p, u, sid) ==
  /\ pc[p] = "idle"
  /\ nAttempts < MaxRaceRequests
  /\ nAttempts' = nAttempts + 1
  /\ req' = [req EXCEPT ![p] = [Request("logout") EXCEPT !.user = u, !.sid = sid]]
  /\ pc' = [pc EXCEPT ![p] = "lo_auth"]
  /\ UNCHANGED <<storeVars, envVars, users, nextSid, loc, resp, streak, lastFailAt,
                 prevOutcome, clearedCount, lastLogin, auxHist>>

\* part_002 16-33: authenticateToken
LogoutAuth(p) ==
  /\ pc[p] = "lo_auth"
  /\ IF authenticateToken(req[p].user, req[p].sid) # "next"
     THEN /\ StoreUntouched
          /\ Respond(p, Response(authenticateToken(req[p].user, req[p].sid), 401))
          /\ UNCHANGED loc
     ELSE /\ StoreAfterAuth(req[p].sid)
          /\ Goto(p, "lo_get")
          /\ loc' = [loc EXCEPT ![p].user = req[p].user]
  /\ UNCHANGED <<failed_attempts, account_lock, reset_token, envVars, users, nextSid,
                 req, histButActive>>
  /\ AuthenticatedActivity(p)

\* redis.js 108: deleteSession reads the session record
LogoutGetSession(p) ==
  /\ pc[p] = "lo_get"
  /\ LET sessionData == getSession(req[p].sid)
     IN IF sessionData = << >>
        THEN Goto(p, "tok_members") /\ UNCHANGED loc
        ELSE Goto(p, "lo_del_session") /\ loc' = [loc EXCEPT ![p].tokenData = sessionData]
  /\ UNCHANGED <<storeVars, envVars, users, nextSid, req, histVars>>

\* redis.js 110: DEL session:<sessionId>
LogoutDelSession(p) ==
  /\ pc[p] = "lo_del_session"
  /\ IF ready
     THEN /\ session' = [session EXCEPT ![req[p].sid] = NoSession]
          /\ Goto(p, "lo_del_pointer")
     ELSE Goto(p, "tok_members") /\ UNCHANGED session
  /\ UNCHANGED <<active_session, refresh_token, user_refresh_tokens, failed_attempts,
                 account_lock, envVars, users, nextSid, req, loc, histVars, auxStore>>

\* redis.js 111: DEL active_session:<userId of the record>
LogoutDelPointer(p) ==
  /\ pc[p] = "lo_del_pointer"
  /\ LET u == loc[p].tokenData[1].userId
     IN active_session' = IF ready
                          THEN [active_session EXCEPT ![u] = NoSid]
                          ELSE active_session
  /\ Goto(p, "tok_members")
  /\ UNCHANGED <<session, refresh_token, user_refresh_tokens, failed_attempts,
                 account_lock, envVars, users, nextSid, req, loc, histVars, auxStore>>

\* auth.js 213-216: deleteAllUserRefreshTokens has returned, the success response
LogoutRespond(p) ==
  /\ pc[p] = "sess_setex"
  /\ req[p].op = "logout"
  /\ Respond(p, Response("success", 200))
  /\ UNCHANGED <<storeVars, envVars, users, nextSid, req, loc, histVars>>

\* logins of one user, one at a time, and logouts with the access token any
\* login has returned so far, handled concurrently with the logins
NextLogoutRace ==
  \/ \E ip \in IPs :
       StartLogin("r1", "alice", "good", ip, agentOf(1), TRUE, MaxRaceRequests)
  \/ req["r1"].op = "login" /\ SuccessStep("r1")
  \/ \E s \in Sids :
       /\ s < nextSid
       /\ ~(req["r1"].op = "login" /\ pc["r1"] # "done" /\ loc["r1"].sid = s)
       /\ StartLogout("r2", "alice", s)
  \/ LogoutAuth("r2")
  \/ LogoutGetSession("r2")
  \/ LogoutDelSession("r2")
  \/ LogoutDelPointer("r2")
  \/ req["r2"].op = "logout" /\ TokensMembers("r2")
  \/ req["r2"].op = "logout" /\ TokensPipeline("r2")
  \/ LogoutRespond("r2")
  \/ req["r2"].op = "logout" /\ Finish("r2")

SpecLogoutRace == Init /\ [][NextLogoutRace]_vars

\* one user logs in, sends authenticated requests and exchanges refresh
\* tokens, one request at a time, while the clock advances in between
NextIdle ==
  \/ \E ip \in IPs :
       /\ nextSid <= MaxIdleLogins
       /\ StartLogin("r1", "alice", "good", ip, agentOf(1), FALSE, MaxIdleRequests)
  \/ SuccessStep("r1")
  \/ \E s \in Sids, op \in {"session-status", "extend-session"} :
       /\ s < nextSid
       /\ StartRequest("r1", [Request(op) EXCEPT !.user = "alice", !.sid = s],
                       MaxIdleRequests)
  \/ SessionStatus("r1")
  \/ ExtendSession("r1")
  \/ \E t \in Sids :
       /\ t < nextSid
       /\ StartRequest("r1", [Request("refresh-token") EXCEPT !.user = "alice", !.tok = t],
                       MaxIdleRequests)
  \/ RefreshToken("r1")
  \/ \E d \in ClockSteps : now + d <= MaxIdleTime /\ Tick(d)

SpecIdle == Init /\ [][NextIdle]_vars

\* authenticated requests whose access token names any session issued so
\* far and either the user of that session or another one, between logins
\* and clock steps, one request at a time, store reachable
NextAuth ==
  \/ \E ip \in IPs :
       /\ nextSid <= MaxIdleLogins
       /\ StartLogin("r1", "alice", "good", ip, agentOf(1), FALSE, MaxIdleRequests)
  \/ SuccessStep("r1")
  \/ \E s \in Sids, u \in Emails, op \in {"session-status", "extend-session"} :
       /\ s < nextSid
       /\ StartRequest("r1", [Request(op) EXCEPT !.user = u, !.sid = s], MaxIdleRequests)
  \/ SessionStatus("r1")
  \/ ExtendSession("r1")
  \/ \E d \in ClockSteps : now + d <= MaxIdleTime /\ Tick(d)

SpecAuth == Init /\ [][NextAuth]_vars

\* the device list of one user: logins (their part on the user entity,
\* auth.js 141-146 and 168-170) and deactivateDevice calls, one after the
\* other.  comparePassword lies between the load of the user and the
\* timestamp of updateDeviceInfo, so every login is stamped later than the
\* entries it finds.  Fingerprints are interchangeable: new ones arrive in
\* the order of agentOf.
knownFingerprints(devices) ==
  {i \in 1 .. MaxFingerprints :
     \E k \in 1 .. Len(devices) : devices[k].deviceId = generateDeviceId(agentOf(i))}

nextFingerprint(known) ==
  IF known = {} THEN 1 ELSE 1 + CHOOSE i \in known : \A j \in known : j <= i

RecordLogin(u, i) ==
  /\ \A p \in Procs : pc[p] = "idle"
  /\ i <= MaxFingerprints
  /\ \E known \in {knownFingerprints(users[u].devices)} :
       /\ \/ i = nextFingerprint(known)
          \/ i \in known /\ lastCall.others < MaxOtherCalls
       /\ \E devices \in {updateDeviceInfo(
                              deactivateOthers(users[u].devices, generateDeviceId(agentOf(i))),
                              agentOf(i), "ip1", now + 1)} :
            users' = [users EXCEPT ![u].lastLogin = now + 1, ![u].devices = devices,
                                   ![u].lastDeviceInfo = agentOf(i)]
       /\ lastCall' = [op |-> "login", deviceId |-> generateDeviceId(agentOf(i)),
                       ret |-> TRUE, n |-> lastCall.n + 1,
                       others |-> IF i \in known THEN lastCall.others + 1
                                  ELSE lastCall.others,
                       again |-> FALSE, before |-> users[u].devices]
  /\ now' = now + 1
  /\ UNCHANGED <<storeVars, ready, mongoUp, nextSid, pc, req, loc, resp, nAttempts, streak,
                 lastFailAt, prevOutcome, clearedCount, lastLogin, sessionDevice, evictedFrom,
                 lastActive>>

\* user.deactivateDevice(deviceId); user.save()
CallDeactivateDevice(u, deviceId) ==
  /\ \A p \in Procs : pc[p] = "idle"
  /\ lastCall.others < MaxOtherCalls
  /\ LET r == deactivateDevice(users[u].devices, deviceId)
     IN /\ users' = [users EXCEPT ![u].devices = r.devices]
        /\ lastCall' = [op |-> "deactivateDevice", deviceId |-> deviceId, ret |-> r.ret,
                        n |-> lastCall.n + 1, others |-> lastCall.others + 1,
                        again |-> (lastCall.op = "deactivateDevice"
                                     /\ lastCall.deviceId = deviceId /\ lastCall.ret),
                        before |-> users[u].devices]
  /\ UNCHANGED <<storeVars, envVars, nextSid, pc, req, loc, resp, nAttempts, streak,
                 lastFailAt, prevOutcome, clearedCount, lastLogin, sessionDevice, evictedFrom,
                 lastActive>>

NextDevices ==
  \/ \E u \in Users, i \in 1 .. MaxFingerprints : RecordLogin(u, i)
  \/ \E u \in Users, i \in 1 .. (MaxFingerprints + 1) :
       CallDeactivateDevice(u, generateDeviceId(agentOf(i)))

SpecDevices == Init /\ [][NextDevices]_vars

(* ------------------------------ properties ---------------------------- *)
FailedCredentialCheck(p) == req[p].op = "login" /\ loc[p].attempts > 0
WrongPassword(p) == FailedCredentialCheck(p) /\ loc[p].user # NoUser
Succeeded(p) == pc[p] = "done" /\ req[p].op = "login" /\ resp[p].kind = "success"

\* C1: with requests handled one at a time and the store reachable, a user
\* never has two session records, and when a login has succeeded the only
\* session record of the user is the one active_session:<userId> names, which
\* is the session of that login; getSession returns null for the session id
\* of every earlier login.
C1_OneSessionAfterLogin ==
  /\ \A u \in Users : Cardinality({s \in Sids : session[s].userId = u}) <= 1
  /\ \A p \in Procs : Succeeded(p) =>
       /\ active_session[loc[p].user] = resp[p].sid
       /\ \A s \in Sids : session[s].userId = loc[p].user => s = active_session[loc[p].user]
       /\ \A s \in 1 .. (nextSid - 1) : s # resp[p].sid => getSession(s) = << >>

\* a second login has succeeded before the first session could expire: it
\* found the pointer of the first one and evicted a live session
C1_Witness ==
  \E p \in Procs : Succeeded(p) /\ loc[p].ptrSid # NoSid /\ now = 0

\* C2: when two overlapping logins of one user have both completed, every
\* session they created other than the one named by active_session:<userId>
\* is gone, so authenticateToken rejects its access token.
C2_RaceLeavesOneSession ==
  (\A p \in Procs : Succeeded(p)) =>
     \A p \in Procs : resp[p].sid # active_session[loc[p].user] =>
        /\ getSession(resp[p].sid) = << >>
        /\ ~authenticateTokenAccepts(loc[p].user, resp[p].sid)

\* C3: a login that returns tokens has written the session record and the
\* refresh-token record they are bound to; when the store is unreachable at
\* either write the login returns no tokens.
C3_NoUnbackedTokens ==
  \A p \in Procs : Succeeded(p) =>
     /\ session[resp[p].sid].userId = loc[p].user
     /\ refresh_token[resp[p].sid].userId = loc[p].user

\* C4: for every identifier, the 5th of 5 consecutive failed credential checks
\* (each within the lockout window of the one before) is answered 'locked',
\* and no attempt made within the lockout window after it gets past the lock
\* check, whatever credentials it carries.
C4_FifthFailureLocks ==
  \A p \in Procs : req[p].op = "login" =>
    LET id == Identifier(p) IN
    /\ (pc[p] = "done" /\ FailedCredentialCheck(p) /\ streak[id] >= LOCK_THRESHOLD)
         => resp[p].kind = "locked"
    /\ (pc[p] # "check_lock" /\ ~FailedCredentialCheck(p)
          /\ streak[id] >= LOCK_THRESHOLD /\ now - lastFailAt[id] < LOCKOUT_TIME)
         => (pc[p] = "done" /\ resp[p].kind = "locked")

\* C5: a login with an email that has no user is answered exactly as a wrong
\* password with the same incremented count is: 'invalid credentials' with
\* 5 - count attempts remaining below the threshold, and from the threshold on
\* 'locked' with the lock flag set.
C5_UnknownEmailLikeWrongPassword ==
  \A p \in Procs :
    (pc[p] = "done" /\ FailedCredentialCheck(p) /\ req[p].email \notin Users) =>
       /\ resp[p] = (IF loc[p].attempts >= LOCK_THRESHOLD THEN LockedResponse
                     ELSE InvalidResponse(LOCK_THRESHOLD - loc[p].attempts))
       /\ loc[p].attempts >= LOCK_THRESHOLD => account_lock[Identifier(p)] # 0

\* C6: when a login has succeeded the failure counter of its identifier is
\* absent (attempt count 0), and a wrong-password attempt whose identifier's
\* previous attempt was a success is answered 'invalid credentials' with 4
\* attempts remaining.
C6_ClearOnSuccess ==
  \A p \in Procs :
    /\ Succeeded(p) =>
         /\ getFailedAttempts(Identifier(p)) = 0
         /\ failed_attempts[Identifier(p)] = NoCounter
    /\ (pc[p] = "done" /\ WrongPassword(p) /\ prevOutcome[Identifier(p)] = "success")
         => resp[p] = InvalidResponse(LOCK_THRESHOLD - 1)

\* four failures, a success that removed a count of 4, and then a wrong
\* password that is told 4 attempts remain
C6_Witness ==
  \E p \in Procs :
    /\ pc[p] = "done" /\ WrongPassword(p)
    /\ prevOutcome[Identifier(p)] = "success"
    /\ clearedCount[Identifier(p)] = LOCK_THRESHOLD - 1
    /\ resp[p].remaining = LOCK_THRESHOLD - 1

C8_LockedAttemptChangesNothing ==
  [][\A p \in Procs :
       /\ (pc[p] = "check_lock" /\ account_lock[Identifier(p)] # 0 /\ pc'[p] # "check_lock")
            => /\ pc'[p] = "done"
               /\ resp'[p] = LockedResponse
               /\ UNCHANGED <<storeVars, users>>
       /\ (pc[p] = "done" /\ resp[p].kind = "locked" /\ ~FailedCredentialCheck(p)
             /\ pc'[p] # "done")
            => UNCHANGED <<storeVars, users>>]_vars

\* an attempt with the right password is turned away by the lock while the
\* user has a live session, a refresh token and a device entry
C8_Witness ==
  \E p \in Procs :
    /\ pc[p] = "done" /\ resp[p].kind = "locked" /\ ~FailedCredentialCheck(p)
    /\ req[p].email \in Users /\ req[p].password = users[req[p].email].password
    /\ active_session[req[p].email] # NoSid
    /\ session[active_session[req[p].email]].userId = req[p].email
    /\ user_refresh_tokens[req[p].email].members # {}
    /\ users[req[p].email].devices # << >>

\* C9: no step of a login that carries the right password of a deactivated
\* account changes the failure counter, the lock, a session, the pointer, a
\* refresh token or the user entity, and once it is past the lock check it
\* ends in the inactive-account failure.
C9_InactiveAccountNoSideEffects ==
  [][\A p \in Procs :
       (/\ req[p].op = "login" /\ req[p].email \in Users
        /\ req[p].password = users[req[p].email].password
        /\ ~users[req[p].email].isActive
        /\ pc'[p] # pc[p])
       => /\ UNCHANGED <<storeVars, users>>
          /\ pc[p] = "find_user" => (pc'[p] = "done" /\ resp'[p] = InactiveResponse)]_vars

\* the inactive-account failure is returned while the identifier has a
\* failure count and the user still has a session and a refresh token
C9_Witness ==
  \E p \in Procs :
    /\ pc[p] = "done" /\ resp[p] = InactiveResponse
    /\ failed_attempts[Identifier(p)].count > 0
    /\ active_session[req[p].email] # NoSid
    /\ session[active_session[req[p].email]].userId = req[p].email
    /\ user_refresh_tokens[req[p].email].members # {}

\* C10: when a login succeeds from a device whose fingerprint differs from
\* that of the user's previous successful login, its response carries a
\* deviceLogout notice describing the entry of that previous device (id,
\* browser, os, type and the lastSeen that login gave it), and getSession on
\* the previous login's session id returns null.
C10_DeviceLogoutNotice ==
  \A p \in Procs :
    (/\ Succeeded(p)
     /\ lastLogin[loc[p].user].entry # << >>
     /\ lastLogin[loc[p].user].entry[1].deviceId # loc[p].deviceId)
    => LET a == lastLogin[loc[p].user].entry[1] IN
       /\ resp[p].deviceLogout # << >>
       /\ resp[p].deviceLogout[1] =
            [wasLoggedOut |-> TRUE, browser |-> a.agent.browser, os |-> a.agent.os,
             deviceType |-> a.agent.dtype, deviceId |-> a.deviceId, lastSeen |-> a.lastSeen]
       /\ getSession(lastLogin[loc[p].user].sid) = << >>

\* a login from the second device right after a login from the first
C10_Witness ==
  \E p \in Procs :
    /\ Succeeded(p)
    /\ lastLogin[loc[p].user].entry # << >>
    /\ lastLogin[loc[p].user].entry[1].deviceId # loc[p].deviceId
    /\ resp[p].deviceLogout # << >>
    /\ now = 0

\* C11: a successful login reports a deviceLogout notice exactly when its
\* eviction deleted a session record that was still live and had been created
\* from a different device fingerprint; after a logout or an expiry of the
\* other device's session there is no notice.
C11_NoticeIffLoggedOutElsewhere ==
  \A p \in Procs : Succeeded(p) =>
    ((resp[p].deviceLogout # << >>)
       <=> (evictedFrom[p] # << >> /\ evictedFrom[p][1] # loc[p].deviceId))

\* C12: when a login has succeeded, whatever device it came from (the device
\* of the user's current session included), no session record and no
\* refresh-token record of an earlier login of the user is left, the session
\* id of the login differs from that of the previous login, and the only
\* session and refresh token of the user are the new ones.
C12_LoginAlwaysRotates ==
  \A p \in Procs : Succeeded(p) =>
    LET u == loc[p].user
        new == resp[p].sid
    IN /\ new # lastLogin[u].sid
       /\ session[new].userId = u /\ session[new].sessionId = new
       /\ refresh_token[new].userId = u
       /\ user_refresh_tokens[u].members = {new}
       /\ \A s \in 1 .. (nextSid - 1) : s # new =>
            /\ getSession(s) = << >>
            /\ getRefreshToken(s) = << >>

\* a login from the device of the user's live session deleted that session
\* and its refresh token
C12_Witness ==
  \E p \in Procs :
    /\ Succeeded(p)
    /\ evictedFrom[p] = <<loc[p].deviceId>>
    /\ loc[p].toks # {}
    /\ lastLogin[loc[p].user].sid = loc[p].ptrSid

Completed(p, op) == pc[p] = "done" /\ req[p].op = op /\ resp[p].kind = "success"

\* C13: when a logout has completed, the session record of its session id
\* and the active-session pointer of the user are absent, no refresh-token
\* record of the user is left and the user's token set is deleted; the
\* access token of that login no longer passes authenticateToken and no
\* refresh token issued so far is found.
C13_LogoutRevokesEverything ==
  \A p \in Procs : Completed(p, "logout") =>
    LET u == req[p].user IN
    /\ session[req[p].sid] = NoSession
    /\ active_session[u] = NoSid
    /\ \A t \in Sids : refresh_token[t].userId # u
    /\ user_refresh_tokens[u] = NoSet
    /\ ~authenticateTokenAccepts(u, req[p].sid)
    /\ \A t \in 1 .. (nextSid - 1) : getRefreshToken(t) = << >>

\* the session of the user's last login has been logged out
C13_Witness ==
  \E p \in Procs :
    /\ Completed(p, "logout")
    /\ lastLogin[req[p].user].sid = req[p].sid
    /\ sessionDevice[req[p].sid] # << >>

\* C14: when a password change or a password reset of a user has succeeded,
\* the fast store holds no session record and no refresh-token record of
\* that user.
C14_PasswordChangeRevokesAll ==
  \A p \in Procs :
    (Completed(p, "change-password") \/ Completed(p, "reset-password")) =>
      LET u == IF req[p].op = "change-password" THEN req[p].user ELSE loc[p].user IN
      /\ \A s \in Sids : session[s].userId # u
      /\ \A t \in Sids : refresh_token[t].userId # u

\* C15: the exchange of a refresh token answers with a new access token
\* exactly when the record of the token exists, the session it names exists
\* and the user is active, and then it leaves every refresh-token record as
\* it was; in every other case it issues no token, and when the record
\* exists but the session is gone or the user is inactive the record of the
\* presented token is deleted.
C15_RefreshExchange ==
  [][\A p \in Procs :
       (pc[p] = "refresh-token" /\ pc'[p] = "done") =>
         LET tok == req[p].tok
             found == refresh_token[tok].userId # NoUser
             live == session[tok].userId # NoUser
             active == users[req[p].user].isActive
         IN /\ (resp'[p].kind = "success") <=> (found /\ live /\ active)
            /\ resp'[p].kind = "success" =>
                 /\ resp'[p].sid = tok
                 /\ refresh_token' = refresh_token
                 /\ user_refresh_tokens' = user_refresh_tokens
            /\ resp'[p].kind # "success" => resp'[p].sid = NoSid
            /\ (found /\ ~live) =>
                 /\ resp'[p].kind = "session_expired"
                 /\ refresh_token'[tok] = NoToken
            /\ (found /\ live /\ ~active) =>
                 /\ resp'[p].kind = "user_inactive"
                 /\ refresh_token'[tok] = NoToken
            /\ ~found => resp'[p].kind \in {"token_invalid", "token_not_found"}]_vars

\* a refresh token whose session has expired was presented and its record
\* is gone
C15_Witness ==
  \E p \in Procs :
    /\ pc[p] = "done" /\ req[p].op = "refresh-token"
    /\ resp[p].kind = "session_expired"
    /\ loc[p].tokenData # << >>
    /\ refresh_token[req[p].tok] = NoToken

\* C16: once a login of a user has completed, with requests handled one at
\* a time, the record of every refresh token issued by an earlier login of
\* the user is gone, and no exchange of such a token yields an access token.
C16_EarlierTokensDead ==
  /\ [](\A u \in Users : (\A p \in Procs : pc[p] = "idle") =>
          \A t \in Sids : t < lastLogin[u].sid => refresh_token[t] = NoToken)
  /\ [][\A p \in Procs :
          (pc[p] = "refresh-token" /\ pc'[p] = "done"
             /\ req[p].tok < lastLogin[req[p].user].sid)
          => (resp'[p].kind # "success" /\ resp'[p].sid = NoSid)]_vars

\* the refresh token of the first login was presented after a later login
\* had completed, and was turned away
C16_Witness ==
  \E p \in Procs :
    /\ pc[p] = "done" /\ req[p].op = "refresh-token"
    /\ req[p].tok # NoSid
    /\ req[p].tok < lastLogin[req[p].user].sid
    /\ resp[p].kind = "token_not_found"

Returned(p, op) == req[p].op = op /\ pc[p] = ServiceExit(op)

\* C17: when deleteAllUserRefreshTokens returns, getRefreshToken is null for
\* every token that had been stored for the user and the user's token set is
\* deleted; the function needs one read of the set and then one pipeline,
\* whose single round trip deletes every token record and the set, however
\* many tokens there are.
C17_BulkRevocation ==
  /\ [](\A p \in Procs : Returned(p, "deleteAllUserRefreshTokens") =>
          /\ \A t \in Sids : refresh_token[t].userId # req[p].user
          /\ \A t \in loc[p].toks : getRefreshToken(t) = << >>
          /\ user_refresh_tokens[req[p].user] = NoSet)
  /\ [][\A p \in Procs : req[p].op = "deleteAllUserRefreshTokens" =>
          /\ pc[p] = "tok_members" =>
               /\ pc'[p] = (IF user_refresh_tokens[req[p].user].members # {}
                            THEN "tok_pipeline" ELSE "sess_setex")
               /\ loc'[p].toks = user_refresh_tokens[req[p].user].members
          /\ pc[p] = "tok_pipeline" =>
               /\ pc'[p] = "sess_setex"
               /\ \A t \in loc[p].toks : refresh_token'[t] = NoToken
               /\ user_refresh_tokens'[req[p].user] = NoSet]_vars

\* three distinct tokens had been stored for the user and one call removed
\* them all
C17_Witness ==
  \E p \in Procs :
    /\ Returned(p, "deleteAllUserRefreshTokens")
    /\ Cardinality(loc[p].toks) = 3
    /\ \A t \in loc[p].toks : getRefreshToken(t) = << >>

\* C18: when createSession(userId, sessionId, fields) returns with the store
\* reachable, getSession(sessionId) gives a record whose userId and
\* sessionId are the arguments, and active_session:<userId> is sessionId.
C18_CreateThenGet ==
  \A p \in Procs : Returned(p, "createSession") =>
    /\ getSession(loc[p].sid) # << >>
    /\ getSession(loc[p].sid)[1].userId = req[p].user
    /\ getSession(loc[p].sid)[1].sessionId = loc[p].sid
    /\ active_session[req[p].user] = loc[p].sid

\* a second session was created for a user who already had one
C18_Witness ==
  \E p \in Procs :
    /\ Returned(p, "createSession")
    /\ getSession(loc[p].sid) # << >>
    /\ \E s \in Sids : s # loc[p].sid /\ session[s].userId = req[p].user

deviceIdsOf(devices) == {devices[k].deviceId : k \in 1 .. Len(devices)}

\* C19 (as stated): deactivateDevice on an existing deviceId returns true, a
\* second call on the same deviceId right after it returns false and leaves
\* the device list unchanged, and on an unknown deviceId it returns false
\* and changes nothing.
C19_DeactivateTwiceTrueThenFalse ==
  \A u \in Users : lastCall.op = "deactivateDevice" =>
    LET found == lastCall.deviceId \in deviceIdsOf(lastCall.before) IN
    /\ (found /\ ~lastCall.again) => lastCall.ret
    /\ lastCall.again => (~lastCall.ret /\ users[u].devices = lastCall.before)
    /\ ~found => (~lastCall.ret /\ users[u].devices = lastCall.before)

\* C19 (amended): deactivateDevice returns true exactly when the device list
\* has an entry with the deviceId, also when that entry is already inactive:
\* a second call on the same deviceId returns true again and leaves the
\* device list unchanged; on an unknown deviceId it returns false and
\* changes nothing.
C19_DeactivateTwiceTrueThenTrue ==
  \A u \in Users : lastCall.op = "deactivateDevice" =>
    LET found == lastCall.deviceId \in deviceIdsOf(lastCall.before) IN
    /\ lastCall.ret <=> found
    /\ lastCall.again => (lastCall.ret /\ users[u].devices = lastCall.before)
    /\ ~found => (~lastCall.ret /\ users[u].devices = lastCall.before)

\* the same device was deactivated twice in a row
C19_Witness ==
  /\ lastCall.op = "deactivateDevice"
  /\ lastCall.again
  /\ lastCall.ret
  /\ \E k \in 1 .. Len(lastCall.before) :
       lastCall.before[k].deviceId = lastCall.deviceId /\ ~lastCall.before[k].isActive

\* C20: the device list of a user never has more than 10 entries and no two
\* of them share a deviceId; a login from a fingerprint the list does not
\* hold, made when the list has 10 entries, removes exactly the entry with
\* the oldest lastSeen and keeps the new entry.
C20_DeviceCap ==
  \A u \in Users :
    LET ds == users[u].devices
        before == lastCall.before
    IN /\ Len(ds) <= MAX_DEVICES
       /\ \A j, k \in 1 .. Len(ds) : ds[j].deviceId = ds[k].deviceId => j = k
       /\ (lastCall.op = "login" /\ Len(before) = MAX_DEVICES
              /\ lastCall.deviceId \notin deviceIdsOf(before))
            => \E k \in 1 .. Len(before) :
                 /\ \A j \in 1 .. Len(before) : j # k => before[j].lastSeen > before[k].lastSeen
                 /\ deviceIdsOf(ds) = (deviceIdsOf(before) \ {before[k].deviceId})
                                        \cup {lastCall.deviceId}
                 /\ Len(ds) = MAX_DEVICES
                 /\ \E n \in 1 .. Len(ds) :
                      ds[n].deviceId = lastCall.deviceId /\ ds[n].lastSeen = now

\* an 11th fingerprint arrived after the first device had logged in again:
\* the first device is kept and another entry was the oldest
C20_Witness ==
  \E u \in Users :
    /\ lastCall.op = "login"
    /\ Len(lastCall.before) = MAX_DEVICES
    /\ lastCall.deviceId \notin deviceIdsOf(lastCall.before)
    /\ generateDeviceId(agentOf(1)) \in deviceIdsOf(users[u].devices)
    /\ lastCall.deviceId \in deviceIdsOf(users[u].devices)

\* C21: an authenticated session-status request on a live session succeeds
\* and returns the seconds left before the session record expires, more than
\* 0 and at most the session timeout.
C21_SessionStatusTimeLeft ==
  \A p \in Procs :
    (pc[p] = "done" /\ req[p].op = "session-status" /\ resp[p].status # 401) =>
      /\ resp[p].kind = "success"
      /\ resp[p].timeLeft = session[req[p].sid].exp - now
      /\ resp[p].timeLeft > 0
      /\ resp[p].timeLeft <= SESSION_TIMEOUT

\* C22: a password-reset request gets the same success response whether or
\* not the address belongs to an account and whether or not the mail could be
\* sent, and for an existing account the reset token is stored in either case.
C22_ResetRequestUniform ==
  \A p \in Procs :
    (pc[p] = "done" /\ req[p].op = "forgot-password") =>
      /\ resp[p] = Response("success", 200)
      /\ req[p].email \in Users => reset_token[req[p].rtoken].userId = req[p].email

AuthenticatedOps == {"session-status", "extend-session"}

\* C23: while the store is not ready the read and refresh operations return
\* their defaults without raising (isAccountLocked false, getFailedAttempts
\* 0, getSession and getRefreshToken null, refreshSession false); a request
\* that reaches authenticateToken in that time is answered 'invalid or
\* expired session', and a login for a locked identifier passes the lock
\* check.
C23_FailOpenDefaults ==
  /\ [](~ready =>
          /\ \A id \in Identifiers : ~isAccountLocked(id) /\ getFailedAttempts(id) = 0
          /\ \A s \in Sids : /\ getSession(s) = << >>
                              /\ getRefreshToken(s) = << >>
                              /\ ~refreshSessionReturn(s))
  /\ [][\A p \in Procs :
          (~ready /\ pc'[p] # pc[p]) =>
            /\ pc[p] = "check_lock" => pc'[p] = "find_user"
            /\ pc[p] \in AuthenticatedOps =>
                 /\ resp'[p] = Response("invalid_session", 401)
                 /\ UNCHANGED storeVars]_vars

\* the store is down, the identifier is locked in the store, and the login
\* has passed the lock check
C23_Witness ==
  \E p \in Procs :
    /\ ~ready
    /\ pc[p] = "find_user"
    /\ account_lock[Identifier(p)] # 0
    /\ failed_attempts[Identifier(p)].count >= LOCK_THRESHOLD

C25_ResetTokenWorksOnce ==
  /\ \A p, q \in Procs :
       (/\ p # q
        /\ Completed(p, "reset-password") /\ Completed(q, "reset-password")
        /\ req[p].rtoken = req[q].rtoken) => FALSE
  /\ \A p \in Procs :
       Completed(p, "reset-password") =>
         /\ reset_token[req[p].rtoken] = NoResetToken
         /\ getResetTokenData(req[p].rtoken) = << >>

\* a step that writes a new session record, a new refresh token record or a
\* pointer to a session
IssuesNew ==
  \/ \E s \in Sids : session[s] = NoSession /\ session'[s] # NoSession
  \/ \E s \in Sids : refresh_token[s] = NoToken /\ refresh_token'[s] # NoToken
  \/ \E u \in Users : active_session'[u] \notin {NoSid, active_session[u]}

\* session s is the one a login in progress has created
IssuedByLoginInProgress(s) ==
  \E p \in Procs : pc[p] \notin {"idle", "done"} /\ req[p].op = "login" /\ loc[p].sid = s

\* C26: with logins handled one at a time, every write of a login that
\* creates the session, the pointer or the refresh token finds both evictions
\* done: no session record, pointer target, refresh token record or token set
\* member of the user other than what this login has created; and in every
\* state, also between two steps of a login, a user has at most one session
\* record.
C26_EvictBeforeIssue ==
  /\ [](\A u \in Users : Cardinality({s \in Sids : session[s].userId = u}) <= 1)
  /\ [][IssuesNew =>
          \A u \in Users, s \in Sids :
            (\/ session[s].userId = u
             \/ active_session[u] = s
             \/ refresh_token[s].userId = u
             \/ s \in user_refresh_tokens[u].members) => IssuedByLoginInProgress(s)]_vars

\* a login that found and evicted an earlier session has written its own
\* session record and not yet the pointer
C26_Witness ==
  \E p \in Procs :
    /\ pc[p] = "ptr_set"
    /\ loc[p].ptrSid # NoSid
    /\ evictedFrom[p] # << >>
    /\ session[loc[p].sid].userId = loc[p].user
    /\ active_session[loc[p].user] = NoSid

\* C27: a refreshSession call made alone, store reachable.  Not forced and
\* the marker of the session younger than the throttle window: neither the
\* session TTL nor the marker changes and the call returns true.  Not forced
\* and no such marker: the marker is written and the session TTL re-armed.
\* Forced: the session TTL is re-armed and the marker is left as it was.
C27_RefreshThrottle ==
  \A p \in Procs :
    (pc[p] = "done" /\ req[p].op = "refreshSession") =>
      LET sid == req[p].sid
          session0 == lastCall.before[1]
          marker0 == lastCall.before[2]
          young == marker0 # NoMarker /\ now - marker0.at < SESSION_REFRESH_THROTTLE
          rearmed == session0 # NoSession =>
                       session[sid] = [session0 EXCEPT !.exp = now + SESSION_TIMEOUT]
      IN /\ resp[p].kind = "true"
         /\ (~req[p].force /\ young) =>
              session[sid] = session0 /\ session_refresh[sid] = marker0
         /\ (~req[p].force /\ ~young) =>
              /\ session_refresh[sid] = [at |-> now, exp |-> now + SESSION_REFRESH_THROTTLE]
              /\ rearmed
         /\ req[p].force => session_refresh[sid] = marker0 /\ rearmed

\* a call without force was throttled: it returned true and the session
\* keeps the shorter TTL it had
C27_Witness ==
  \E p \in Procs :
    /\ pc[p] = "done" /\ req[p].op = "refreshSession" /\ ~req[p].force
    /\ resp[p].kind = "true"
    /\ session_refresh[req[p].sid] # NoMarker
    /\ session_refresh[req[p].sid].at < now
    /\ session[req[p].sid] # NoSession
    /\ session[req[p].sid].exp < now + SESSION_TIMEOUT

\* C28: calls of refreshSession without force, concurrent ones included,
\* re-arm the TTL of a session at most once per throttle window: no such
\* call issues EXPIRE on a session whose TTL a call already re-armed less
\* than a throttle window ago.
C28_OneRearmPerWindow ==
  [][\A p \in Procs :
       (pc[p] = "rs_expire" /\ pc'[p] = "done" /\ ~req[p].force
          /\ session[req[p].sid] # NoSession) =>
         LET armedAt == session[req[p].sid].exp - SESSION_TIMEOUT
         IN ~(armedAt > session[req[p].sid].createdAt
                /\ now - armedAt < SESSION_REFRESH_THROTTLE)]_vars

\* no request is between the INCR and the EXPIRE of the counter of id
CounterSettled(id) ==
  \A p \in Procs : pc[p] \in {"nf_expire", "pw_expire"} => Identifier(p) # id

\* C29: every recordFailure adds exactly 1 to the counter of its identifier
\* (an absent counter becomes 1) and returns the new count, then re-arms the
\* counter's TTL to the full lockout window, so that the counter lives until
\* one lockout window after the most recent failure; the counts returned to
\* requests that are in progress together are pairwise distinct.
C29_RecordFailure ==
  /\ [](\A id \in Identifiers :
          (CounterSettled(id) /\ streak[id] > 0) =>
            IF now - lastFailAt[id] < LOCKOUT_TIME
            THEN /\ failed_attempts[id].count > 0
                 /\ failed_attempts[id].exp = lastFailAt[id] + LOCKOUT_TIME
            ELSE failed_attempts[id] = NoCounter)
  /\ [](\A p, q \in Procs :
          (p # q /\ FailedCredentialCheck(p) /\ FailedCredentialCheck(q)
             /\ Identifier(p) = Identifier(q)) => loc[p].attempts # loc[q].attempts)
  /\ [][\A p \in Procs :
          /\ (pc[p] \in {"nf_incr", "pw_incr"} /\ pc'[p] # pc[p]) =>
               /\ failed_attempts'[Identifier(p)].count = failed_attempts[Identifier(p)].count + 1
               /\ loc'[p].attempts = failed_attempts'[Identifier(p)].count
          /\ (pc[p] \in {"nf_expire", "pw_expire"} /\ pc'[p] # pc[p]) =>
               failed_attempts'[Identifier(p)] =
                 [failed_attempts[Identifier(p)] EXCEPT !.exp = now + LOCKOUT_TIME]]_vars

\* two failing logins in progress together got different counts from a
\* counter that an earlier failure had created and that has just been
\* re-armed, later than the start of the behaviour
C29_Witness ==
  \E p, q \in Procs :
    /\ p # q /\ Identifier(p) = Identifier(q)
    /\ FailedCredentialCheck(p) /\ FailedCredentialCheck(q)
    /\ loc[p].attempts + 1 = loc[q].attempts
    /\ loc[p].attempts > 1
    /\ now > 0
    /\ failed_attempts[Identifier(p)].exp = now + LOCKOUT_TIME

\* no request is between its failure count and the lock it sets
LockSettled(id) ==
  \A p \in Procs : ~(pc[p] \in {"nf_expire", "pw_expire", "lock"} /\ Identifier(p) = id)

\* the last finished login on the identifier of p was refused as locked,
\* and the login of p has ended otherwise
AfterLock(p) ==
  /\ pc[p] = "done" /\ req[p].op = "login"
  /\ prevOutcome[Identifier(p)] = "locked"
  /\ resp[p].kind # "locked"

\* C30: a lock is temporary. The lock flag, once set by the fifth failure,
\* is in the store exactly until one lockout window after that failure; a
\* login attempt that meets the lock is refused and changes neither the
\* lock flag nor the counter; and the first attempt after the lock is
\* treated like a first one: the right password succeeds and a wrong one is
\* answered with 4 attempts remaining.
C30_LockIsTemporary ==
  /\ [](\A id \in Identifiers :
          (LockSettled(id) /\ streak[id] >= LOCK_THRESHOLD) =>
            /\ account_lock[id] # 0 <=> now < lastFailAt[id] + LOCKOUT_TIME
            /\ account_lock[id] # 0 => account_lock[id] = lastFailAt[id] + LOCKOUT_TIME)
  /\ [][\A p \in Procs :
          (pc[p] = "check_lock" /\ pc'[p] # pc[p]) =>
            IF account_lock[Identifier(p)] # 0
            THEN /\ resp'[p] = LockedResponse
                 /\ UNCHANGED <<account_lock, failed_attempts>>
            ELSE pc'[p] = "find_user"]_vars
  /\ [](\A p \in Procs :
          AfterLock(p) =>
            /\ account_lock[Identifier(p)] = 0
            /\ IF req[p].password = users[req[p].email].password
               THEN resp[p].kind = "success"
               ELSE resp[p].kind = "invalid" /\ resp[p].remaining = LOCK_THRESHOLD - 1)

\* the lock has run out after an attempt was refused as locked, and a wrong
\* password is answered with 4 attempts remaining
C30_Witness ==
  \E p \in Procs :
    /\ AfterLock(p)
    /\ resp[p].kind = "invalid" /\ resp[p].remaining = LOCK_THRESHOLD - 1
    /\ now >= LOCKOUT_TIME

\* the device list updateDeviceInfo was called on by the last login: the
\* list loaded with the user, all other devices marked inactive
PassedToUpdate == deactivateOthers(lastCall.before, lastCall.deviceId)

\* C31: updateDeviceInfo on a fingerprint the device list holds leaves the
\* length of the list unchanged, adds 1 to the loginCount of that entry,
\* sets its lastSeen to the time of the call and its isActive to true and
\* changes no other entry; on a fingerprint the list does not hold it
\* appends one entry with loginCount 1 and isActive true (the list, when
\* that makes 11 entries, is then cut to 10 and still holds the new one);
\* the id it returns is the fingerprint of the entry it touched.
C31_RecordLogin ==
  \A u \in Users : lastCall.op = "login" =>
    LET pre == PassedToUpdate
        post == users[u].devices
        id == lastCall.deviceId
    IN IF id \in deviceIdsOf(pre)
       THEN /\ Len(post) = Len(pre)
            /\ \A k \in 1 .. Len(pre) :
                 IF pre[k].deviceId = id
                 THEN /\ post[k].deviceId = id
                      /\ post[k].loginCount = pre[k].loginCount + 1
                      /\ post[k].lastSeen = now
                      /\ post[k].isActive
                      /\ post[k].firstSeen = pre[k].firstSeen
                 ELSE post[k] = pre[k]
       ELSE /\ Cardinality({k \in 1 .. Len(post) : post[k].deviceId = id}) = 1
            /\ \A k \in 1 .. Len(post) : post[k].deviceId = id =>
                 /\ post[k].loginCount = 1 /\ post[k].isActive
                 /\ post[k].firstSeen = now /\ post[k].lastSeen = now
            /\ Len(pre) < MAX_DEVICES =>
                 /\ Len(post) = Len(pre) + 1
                 /\ SubSeq(post, 1, Len(pre)) = pre
                 /\ post[Len(post)].deviceId = id

\* a device that had been logged out by a login elsewhere has logged in
\* again: its entry was inactive, and the list holds other entries
C31_Witness ==
  /\ lastCall.op = "login"
  /\ Len(lastCall.before) >= 2
  /\ \E k \in 1 .. Len(lastCall.before) :
       /\ lastCall.before[k].deviceId = lastCall.deviceId
       /\ ~lastCall.before[k].isActive
       /\ lastCall.before[k].loginCount >= 1

\* no call of storeRefreshToken is between its commands
TokensSettled == \A p \in Procs : pc[p] \notin {"rt_sadd", "rt_expire"}

\* C32: whenever a refresh-token record of a user exists, the token set of
\* that user exists, contains the token and expires no earlier than the
\* record.
C32_SetOutlivesMembers ==
  TokensSettled =>
    \A t \in Sids :
      refresh_token[t] # NoToken =>
        LET set == user_refresh_tokens[refresh_token[t].userId]
        IN /\ set # NoSet
           /\ t \in set.members
           /\ set.exp >= refresh_token[t].exp

\* a token stored half a token life after another one is still there when
\* the first has expired: the set outlived the TTL given at the first store
C32_Witness ==
  /\ TokensSettled
  /\ now >= REFRESH_TOKEN_EXPIRE
  /\ \E t \in Sids :
       /\ refresh_token[t] # NoToken
       /\ refresh_token[t].exp > now
       /\ \E o \in user_refresh_tokens[refresh_token[t].userId].members :
            o # t /\ refresh_token[o] = NoToken

\* C33: a login that has ended in a failure has left no session record, no
\* active-session pointer and no refresh-token record of its own in the
\* store; in particular a login whose save of the user entity failed is
\* answered with an error and the store holds no session or token of it.
C33_FailedLoginLeavesNothing ==
  \A p \in Procs :
    (pc[p] = "done" /\ req[p].op = "login" /\ resp[p].kind # "success") =>
      \A s \in Sids :
        s = loc[p].sid =>
          /\ session[s] = NoSession
          /\ active_session[loc[p].user] # s
          /\ refresh_token[s] = NoToken

\* C34: a request passes authenticateToken only if the session record its
\* token names exists and carries the user id of the token; a request that
\* passes leaves the store as one refreshSession without force leaves it
\* (inside the throttle window nothing changes, outside it the marker is
\* written and the session TTL is set to the full timeout); a request that
\* is rejected leaves the whole store as it was.
C34_AuthenticateToken ==
  [][\A p \in Procs :
       (pc[p] \in AuthenticatedOps /\ pc'[p] = "done") =>
         LET sid == req[p].sid
             marker == session_refresh[sid]
             inWindow == marker # NoMarker /\ now - marker.at < SESSION_REFRESH_THROTTLE
         IN IF resp'[p].status = 401
            THEN UNCHANGED storeVars
            ELSE /\ session[sid] # NoSession
                 /\ session[sid].userId = req[p].user
                 /\ UNCHANGED <<active_session, refresh_token, user_refresh_tokens,
                                failed_attempts, account_lock, reset_token>>
                 /\ \A s \in Sids : s # sid =>
                      session'[s] = session[s] /\ session_refresh'[s] = session_refresh[s]
                 /\ IF inWindow
                    THEN session'[sid] = session[sid] /\ session_refresh'[sid] = marker
                    ELSE /\ session'[sid] = [session[sid] EXCEPT !.exp = now + SESSION_TIMEOUT]
                         /\ session_refresh'[sid] =
                              [at |-> now, exp |-> now + SESSION_REFRESH_THROTTLE]]_vars

\* a token that names a live session and another user has been rejected as
\* a mismatch
C34_Witness ==
  \E p \in Procs :
    /\ pc[p] = "done" /\ req[p].op \in AuthenticatedOps
    /\ resp[p].kind = "session_mismatch"
    /\ session[req[p].sid] # NoSession
    /\ session[req[p].sid].userId # req[p].user

\* C35: whenever no request is between two of its store commands, every
\* session record in the store is the one the active-session pointer of its
\* user names, so every session authenticateToken accepts is that one.
C35_PointerNamesEverySession ==
  (\A p \in Procs : pc[p] \in {"idle", "done"}) =>
    \A s \in Sids :
      /\ session[s] # NoSession => active_session[session[s].userId] = s
      /\ \A u \in Users : authenticateTokenAccepts(u, s) => active_session[u] = s

\* C36: a logout handled concurrently with a login of the same user never
\* removes the pointer that names the session of that login: when both have
\* ended, either the pointer names the session the login created and its
\* record exists, or neither that record nor the pointer exists.
C36_LogoutKeepsNewPointer ==
  \A p, q \in Procs :
    (/\ pc[p] = "done" /\ req[p].op = "login" /\ resp[p].kind = "success"
     /\ pc[q] = "done" /\ req[q].op = "logout" /\ resp[q].kind = "success"
     /\ req[q].sid # resp[p].sid) =>
      LET S2 == resp[p].sid
          u == loc[p].user
      IN \/ active_session[u] = S2 /\ session[S2] # NoSession
         \/ active_session[u] = NoSid /\ session[S2] = NoSession

\* C37: whenever no request is between two of its store commands, every
\* refresh-token record in the store is a member of the token set of its
\* user, so that deleteAllUserRefreshTokens finds it.
C37_NoOrphanTokens ==
  (\A p \in Procs : pc[p] \in {"idle", "done"}) =>
    \A t \in Sids :
      refresh_token[t] # NoToken =>
        t \in user_refresh_tokens[refresh_token[t].userId].members

\* C38: for an identifier of an existing user at most 5 password
\* comparisons fail inside one lockout window, however the attempts
\* interleave: no attempt compares a password once the counter is at 5.
C38_AtMostFiveGuesses ==
  \A id \in Identifiers :
    id[1] \in Users =>
      /\ streak[id] <= LOCK_THRESHOLD
      /\ failed_attempts[id].count <= LOCK_THRESHOLD

\* the steps of a login up to the end of its credential and account checks
CheckSteps == {"check_lock", "find_user", "nf_incr", "pw_incr", "nf_expire", "pw_expire", "lock"}

\* the terminal failures of a login
TerminalFailures == {"locked", "invalid", "inactive"}

\* C39: a login that ends in a terminal failure (locked, invalid
\* credentials, inactive account) ends there from one of its checking steps,
\* and no checking step changes a session record, the active-session
\* pointer, a refresh-token record, the token set or the user entity with
\* its device list.
C39_FailedLoginKeepsSession ==
  [][\A p \in Procs :
       (req[p].op = "login" /\ pc'[p] # pc[p]) =>
         /\ pc[p] \in CheckSteps =>
              UNCHANGED <<session, active_session, refresh_token, user_refresh_tokens, users>>
         /\ (pc'[p] = "done" /\ resp'[p].kind \in TerminalFailures) => pc[p] \in CheckSteps]_vars

\* the fifth wrong password has locked the identifier while the user has a
\* live session, a refresh token and a device entry
C39_Witness ==
  \E p \in Procs :
    /\ pc[p] = "done" /\ resp[p].kind = "locked" /\ WrongPassword(p)
    /\ active_session[req[p].email] # NoSid
    /\ session[active_session[req[p].email]].userId = req[p].email
    /\ refresh_token[active_session[req[p].email]] # NoToken
    /\ users[req[p].email].devices # << >>

\* the places of the device list whose entry is active
activeEntries(devices) == {k \in 1 .. Len(devices) : devices[k].isActive}

\* C40: the device list of a user never holds more than one entry with
\* isActive = true, and right after a login exactly one entry is active: the
\* entry of the device that logged in.
C40_OneActiveDevice ==
  \A u \in Users :
    LET ds == users[u].devices IN
    /\ Cardinality(activeEntries(ds)) <= 1
    /\ lastCall.op = "login" =>
         /\ Cardinality(activeEntries(ds)) = 1
         /\ \A k \in activeEntries(ds) : ds[k].deviceId = lastCall.deviceId

\* a login from another device than the one that was active
C40_Witness ==
  \E u \in Users :
    /\ lastCall.op = "login"
    /\ \E k \in activeEntries(lastCall.before) :
         lastCall.before[k].deviceId # lastCall.deviceId
    /\ \E k \in 1 .. Len(users[u].devices) :
         users[u].devices[k].deviceId # lastCall.deviceId /\ ~users[u].devices[k].isActive

====
